---- MODULE Spec2Model ----
(***************************************************************************)
(* A model of the ditherto dithering engine: the nearest-colour search,    *)
(* the three built-in algorithms (Atkinson, Floyd-Steinberg, ordered), the *)
(* algorithm registry and the ditherImage pipeline.                        *)
(*                                                                         *)
(* Pixel buffers are Uint8ClampedArrays: sequences of bytes, four per      *)
(* pixel, row-major.  The code's index i is the sequence position i + 1.   *)
(* Buffers live on a heap (a sequence of buffers; a buffer's identity is   *)
(* its position), so that "the same buffer" and "a copy" differ.           *)
(***************************************************************************)
EXTENDS Integers, Sequences, FiniteSets, TLC

(***************************************************************************)
(* Bounds of the model.                                                    *)
(***************************************************************************)
MaxW == 3
MaxH == 3
MaxStep == 2
RandDen == 2
MaxPaletteLen == 2
MaxOther == 1

(***************************************************************************)
(* Values.                                                                 *)
(***************************************************************************)
None == {}
Some(v) == {v}
IsSome(o) == o # {}
The(o) == CHOOSE v \in o : TRUE

Ok(v) == [ok |-> TRUE, value |-> v, error |-> ""]
Throw(msg) == [ok |-> FALSE, value |-> <<>>, error |-> msg]

EmptyPaletteMsg == "Palette cannot be empty"
StepMsg == "Step must be >= 1"

Min(a, b) == IF a < b THEN a ELSE b
Max(a, b) == IF a > b THEN a ELSE b

Black == <<0, 0, 0>>
White == <<255, 255, 255>>
Red == <<255, 0, 0>>
Green == <<0, 255, 0>>
BW == <<Black, White>>

(***************************************************************************)
(* palette/utils.ts: colorDistance and findClosestColor.  The code compares*)
(* Math.sqrt of the sum of squares; the model compares the sums, which     *)
(* orders integer sums below 3 * 255^2 exactly as their square roots do.   *)
(* The private copies of findClosestColor in atkinson.ts and               *)
(* floydSteinberg.ts are the same scan.                                    *)
(***************************************************************************)
colorDistance(color1, color2) ==
  LET dr == color1[1] - color2[1]
      dg == color1[2] - color2[2]
      db == color1[3] - color2[3]
  IN  dr * dr + dg * dg + db * db

\* Closer with <= in place of <: a later entry at the same distance wins
Closer_OrEqual(distance, minDistance) == minDistance = -1 \/ distance <= minDistance

\* the comparison `distance < minDistance` of the scan; minDistance = -1 is Infinity
Closer(distance, minDistance) == minDistance = -1 \/ distance < minDistance

RECURSIVE closestScan(_, _, _, _, _)
closestScan(color, palette, i, minDistance, closest) ==
  IF i > Len(palette) THEN closest
  ELSE LET distance == colorDistance(color, palette[i])
       IN  IF Closer(distance, minDistance)
           THEN closestScan(color, palette, i + 1, distance, palette[i])
           ELSE closestScan(color, palette, i + 1, minDistance, closest)

findClosestColor(color, palette) ==
  IF Len(palette) = 0 THEN Throw(EmptyPaletteMsg)
  ELSE Ok(closestScan(color, palette, 1, -1, palette[1]))

(***************************************************************************)
(* Stores into a Uint8ClampedArray.  The value num/den is first clamped by *)
(* Math.max(0, Math.min(255, v)) and then converted by the array store,    *)
(* which rounds to the nearest integer, ties to even.                      *)
(***************************************************************************)
RoundHalfEven(num, den) ==
  LET q == num \div den
      r == num % den
  IN  IF 2 * r < den THEN q
      ELSE IF 2 * r > den THEN q + 1
      ELSE IF q % 2 = 0 THEN q ELSE q + 1

\* a store into a Uint8Array: rounded, then taken modulo 256
ToUint8Clamped_Wrap(num, den) == RoundHalfEven(num, den) % 256

ToUint8Clamped(num, den) == RoundHalfEven(Max(0, Min(255 * den, num)), den)

At(pixels, i) == pixels[i + 1]

\* applyError of atkinson.ts and of floydSteinberg.ts: factor = fnum/fden
applyError(pixels, index, errorR, errorG, errorB, fnum, fden) ==
  [pixels EXCEPT
     ![index + 1] = ToUint8Clamped(@ * fden + errorR * fnum, fden),
     ![index + 2] = ToUint8Clamped(@ * fden + errorG * fnum, fden),
     ![index + 3] = ToUint8Clamped(@ * fden + errorB * fnum, fden)]

\* the stores that quantize the anchor pixel, without the one to alpha
SetPixel_KeepAlpha(pixels, i, newPixel) ==
  [pixels EXCEPT ![i + 1] = newPixel[1], ![i + 2] = newPixel[2],
                 ![i + 3] = newPixel[3]]

\* the four stores that quantize the anchor pixel
SetPixel(pixels, i, newPixel) ==
  [pixels EXCEPT ![i + 1] = newPixel[1], ![i + 2] = newPixel[2],
                 ![i + 3] = newPixel[3], ![i + 4] = 255]

(***************************************************************************)
(* algorithms/atkinson.ts                                                  *)
(***************************************************************************)
\* distributeAtkinsonError whose first neighbour is the anchor to the left
distributeAtkinsonError_Back(pixels, x, y, width, height, errorR, errorG, errorB, step) ==
  LET p1 == IF x - step >= 0
            THEN applyError(pixels, (y * width + (x - step)) * 4,
                            errorR, errorG, errorB, 1, 8)
            ELSE pixels
      p2 == IF x + step * 2 < width
            THEN applyError(p1, (y * width + (x + step * 2)) * 4,
                            errorR, errorG, errorB, 1, 8)
            ELSE p1
      p3 == IF y + step < height /\ x - step >= 0
            THEN applyError(p2, ((y + step) * width + (x - step)) * 4,
                            errorR, errorG, errorB, 1, 8)
            ELSE p2
      p4 == IF y + step < height
            THEN applyError(p3, ((y + step) * width + x) * 4,
                            errorR, errorG, errorB, 1, 8)
            ELSE p3
      p5 == IF y + step < height /\ x + step < width
            THEN applyError(p4, ((y + step) * width + (x + step)) * 4,
                            errorR, errorG, errorB, 1, 8)
            ELSE p4
      p6 == IF y + step * 2 < height
            THEN applyError(p5, ((y + step * 2) * width + x) * 4,
                            errorR, errorG, errorB, 1, 8)
            ELSE p5
  IN  p6

distributeAtkinsonError(pixels, x, y, width, height, errorR, errorG, errorB, step) ==
  LET p1 == IF x + step < width
            THEN applyError(pixels, (y * width + (x + step)) * 4,
                            errorR, errorG, errorB, 1, 8)
            ELSE pixels
      p2 == IF x + step * 2 < width
            THEN applyError(p1, (y * width + (x + step * 2)) * 4,
                            errorR, errorG, errorB, 1, 8)
            ELSE p1
      p3 == IF y + step < height /\ x - step >= 0
            THEN applyError(p2, ((y + step) * width + (x - step)) * 4,
                            errorR, errorG, errorB, 1, 8)
            ELSE p2
      p4 == IF y + step < height
            THEN applyError(p3, ((y + step) * width + x) * 4,
                            errorR, errorG, errorB, 1, 8)
            ELSE p3
      p5 == IF y + step < height /\ x + step < width
            THEN applyError(p4, ((y + step) * width + (x + step)) * 4,
                            errorR, errorG, errorB, 1, 8)
            ELSE p4
      p6 == IF y + step * 2 < height
            THEN applyError(p5, ((y + step * 2) * width + x) * 4,
                            errorR, errorG, errorB, 1, 8)
            ELSE p5
  IN  p6

\* processPixel of atkinson.ts handing on twice the error
processPixelAtkinson_Doubled(pixels, x, y, width, height, palette, step) ==
  LET i == (y * width + x) * 4
      oldPixel == <<At(pixels, i), At(pixels, i + 1), At(pixels, i + 2)>>
      newPixel == findClosestColor(oldPixel, palette).value
      quantized == SetPixel(pixels, i, newPixel)
  IN  distributeAtkinsonError(quantized, x, y, width, height,
                              2 * (oldPixel[1] - newPixel[1]),
                              2 * (oldPixel[2] - newPixel[2]),
                              2 * (oldPixel[3] - newPixel[3]), step)

processPixelAtkinson(pixels, x, y, width, height, palette, step) ==
  LET i == (y * width + x) * 4
      oldPixel == <<At(pixels, i), At(pixels, i + 1), At(pixels, i + 2)>>
      newPixel == findClosestColor(oldPixel, palette).value
      quantized == SetPixel(pixels, i, newPixel)
  IN  distributeAtkinsonError(quantized, x, y, width, height,
                              oldPixel[1] - newPixel[1],
                              oldPixel[2] - newPixel[2],
                              oldPixel[3] - newPixel[3], step)

\* the body of the loop of atkinsonAlgorithm.apply
atkinsonBody(pixels, x, y, width, height, palette, step) ==
  processPixelAtkinson(pixels, x, y, width, height, palette, step)

(***************************************************************************)
(* algorithms/floydSteinberg.ts                                            *)
(***************************************************************************)
\* distributeFloydSteinbergError whose test for the right neighbour is that
\* its index is inside the buffer
distributeFloydSteinbergError_Wrap(pixels, x, y, width, height, errorR, errorG, errorB, step) ==
  LET p1 == IF (y * width + (x + step)) * 4 < Len(pixels)
            THEN applyError(pixels, (y * width + (x + step)) * 4,
                            errorR, errorG, errorB, 7, 16)
            ELSE pixels
      p2 == IF y + step < height /\ x - step >= 0
            THEN applyError(p1, ((y + step) * width + (x - step)) * 4,
                            errorR, errorG, errorB, 3, 16)
            ELSE p1
      p3 == IF y + step < height
            THEN applyError(p2, ((y + step) * width + x) * 4,
                            errorR, errorG, errorB, 5, 16)
            ELSE p2
      p4 == IF y + step < height /\ x + step < width
            THEN applyError(p3, ((y + step) * width + (x + step)) * 4,
                            errorR, errorG, errorB, 1, 16)
            ELSE p3
  IN  p4

\* distributeFloydSteinbergError with the weights of the right and the lower
\* neighbour exchanged
distributeFloydSteinbergError_Swapped(pixels, x, y, width, height, errorR, errorG, errorB, step) ==
  LET p1 == IF x + step < width
            THEN applyError(pixels, (y * width + (x + step)) * 4,
                            errorR, errorG, errorB, 5, 16)
            ELSE pixels
      p2 == IF y + step < height /\ x - step >= 0
            THEN applyError(p1, ((y + step) * width + (x - step)) * 4,
                            errorR, errorG, errorB, 3, 16)
            ELSE p1
      p3 == IF y + step < height
            THEN applyError(p2, ((y + step) * width + x) * 4,
                            errorR, errorG, errorB, 7, 16)
            ELSE p2
      p4 == IF y + step < height /\ x + step < width
            THEN applyError(p3, ((y + step) * width + (x + step)) * 4,
                            errorR, errorG, errorB, 1, 16)
            ELSE p3
  IN  p4

distributeFloydSteinbergError(pixels, x, y, width, height, errorR, errorG, errorB, step) ==
  LET p1 == IF x + step < width
            THEN applyError(pixels, (y * width + (x + step)) * 4,
                            errorR, errorG, errorB, 7, 16)
            ELSE pixels
      p2 == IF y + step < height /\ x - step >= 0
            THEN applyError(p1, ((y + step) * width + (x - step)) * 4,
                            errorR, errorG, errorB, 3, 16)
            ELSE p1
      p3 == IF y + step < height
            THEN applyError(p2, ((y + step) * width + x) * 4,
                            errorR, errorG, errorB, 5, 16)
            ELSE p2
      p4 == IF y + step < height /\ x + step < width
            THEN applyError(p3, ((y + step) * width + (x + step)) * 4,
                            errorR, errorG, errorB, 1, 16)
            ELSE p3
  IN  p4

processPixelFloydSteinberg(pixels, x, y, width, height, palette, step) ==
  LET i == (y * width + x) * 4
      oldPixel == <<At(pixels, i), At(pixels, i + 1), At(pixels, i + 2)>>
      newPixel == findClosestColor(oldPixel, palette).value
      quantized == SetPixel(pixels, i, newPixel)
  IN  distributeFloydSteinbergError(quantized, x, y, width, height,
                                    oldPixel[1] - newPixel[1],
                                    oldPixel[2] - newPixel[2],
                                    oldPixel[3] - newPixel[3], step)

\* InBlockRest of a block one column wider than the step
InBlockRest_Wide(bx, by, x, y, width, height, step) ==
  /\ bx >= x /\ bx < Min(x + step + 1, width)
  /\ by >= y /\ by < Min(y + step, height)
  /\ (by # y \/ bx # x)

\* (bx, by) is a pixel of the block anchored at (x, y) other than the anchor
InBlockRest(bx, by, x, y, width, height, step) ==
  /\ bx >= x /\ bx < Min(x + step, width)
  /\ by >= y /\ by < Min(y + step, height)
  /\ (by # y \/ bx # x)

\* fillPixelBlock of ordered.ts: every other pixel of the block gets blockColor
fillPixelBlock(pixels, x, y, width, height, step, blockColor) ==
  [k \in 1 .. Len(pixels) |->
     IF InBlockRest(((k - 1) \div 4) % width, ((k - 1) \div 4) \div width,
                    x, y, width, height, step)
     THEN (IF (k - 1) % 4 = 3 THEN 255 ELSE blockColor[((k - 1) % 4) + 1])
     ELSE pixels[k]]

\* fillPixelBlock of floydSteinberg.ts: the colour is read back from the anchor
fillPixelBlockFloydSteinberg(pixels, x, y, width, height, step) ==
  LET blockColor == <<At(pixels, (y * width + x) * 4),
                      At(pixels, (y * width + x) * 4 + 1),
                      At(pixels, (y * width + x) * 4 + 2)>>
  IN  fillPixelBlock(pixels, x, y, width, height, step, blockColor)

\* the body of the loop of floydSteinbergAlgorithm.apply
floydSteinbergBody(pixels, x, y, width, height, palette, step) ==
  LET processed == processPixelFloydSteinberg(pixels, x, y, width, height, palette, step)
  IN  IF step > 1
      THEN fillPixelBlockFloydSteinberg(processed, x, y, width, height, step)
      ELSE processed

(***************************************************************************)
(* algorithms/ordered.ts.  Math.random() is a draw k/RandDen, k in         *)
(* 0 .. RandDen-1; rnd holds the three numerators drawn for one anchor.    *)
(* The noisy pixel is real-valued; the model keeps it exactly, as a        *)
(* numerator over NoiseScale.                                              *)
(***************************************************************************)
BAYER_4X4 == << <<  0, 128,  32, 160>>,
                <<192,  64, 224,  96>>,
                << 48, 176,  16, 144>>,
                <<240, 112, 208,  80>> >>

NoiseScale == RandDen * 255

RandDraws == (0 .. RandDen - 1) \X (0 .. RandDen - 1) \X (0 .. RandDen - 1)

\* the threshold taken at the pixel's own coordinates, whatever the step
bayerThreshold_Pixels(x, y, step) ==
  LET bayerX == x % 4
      bayerY == y % 4
  IN  BAYER_4X4[bayerY + 1][bayerX + 1]

bayerThreshold(x, y, step) ==
  LET bayerX == (x \div step) % 4
      bayerY == (y \div step) % 4
  IN  BAYER_4X4[bayerY + 1][bayerX + 1]

\* oldPixel[c] + (random * 2 - 1) * (threshold / 255) * 32, clamped, times NoiseScale
noisyChannel(old, k, threshold) ==
  Max(0, Min(255 * NoiseScale, old * NoiseScale + (2 * k - RandDen) * threshold * 32))

\* distance(pixel, c1) < distance(pixel, c2) for a pixel given over NoiseScale:
\* d1^2 - d2^2 = NoiseScale * SUM (c2 - c1) * (2 * pixel - (c1 + c2) * NoiseScale)
NearerThan(pixel, c1, c2) ==
  LET term(ch) == (c2[ch] - c1[ch]) * (2 * pixel[ch] - (c1[ch] + c2[ch]) * NoiseScale)
  IN  term(1) + term(2) + term(3) < 0

\* the scan of ordered.ts's findClosestColor; minDistance is the distance of
\* `closest` once the first entry has been taken (first = the scan is at Infinity)
RECURSIVE closestScanOrdered(_, _, _, _, _)
closestScanOrdered(pixel, palette, i, first, closest) ==
  IF i > Len(palette) THEN closest
  ELSE IF first \/ NearerThan(pixel, palette[i], closest)
       THEN closestScanOrdered(pixel, palette, i + 1, FALSE, palette[i])
       ELSE closestScanOrdered(pixel, palette, i + 1, FALSE, closest)

findClosestColorOrdered(pixel, palette) ==
  IF Len(palette) = 0 THEN Throw(EmptyPaletteMsg)
  ELSE Ok(closestScanOrdered(pixel, palette, 1, TRUE, palette[1]))

applyOrderedDithering(oldPixel, x, y, step, palette, rnd) ==
  LET threshold == bayerThreshold(x, y, step)
      noisyPixel == <<noisyChannel(oldPixel[1], rnd[1], threshold),
                      noisyChannel(oldPixel[2], rnd[2], threshold),
                      noisyChannel(oldPixel[3], rnd[3], threshold)>>
  IN  findClosestColorOrdered(noisyPixel, palette).value

\* the body of the loop of orderedAlgorithm.apply
orderedBody(pixels, x, y, width, height, palette, step, rnd) ==
  LET i == (y * width + x) * 4
      oldPixel == <<At(pixels, i), At(pixels, i + 1), At(pixels, i + 2)>>
      newPixel == applyOrderedDithering(oldPixel, x, y, step, palette, rnd)
      quantized == SetPixel(pixels, i, newPixel)
  IN  IF step > 1
      THEN fillPixelBlock(quantized, x, y, width, height, step, newPixel)
      ELSE quantized

(***************************************************************************)
(* One call of DitherAlgorithm.apply(data, palette, step), one loop        *)
(* iteration per step.  `data` is the caller's ImageData (its buffer is    *)
(* heap[data.data]); `input0` remembers what the caller passed in.         *)
(***************************************************************************)
VARIABLES alg, data, palette, step, hasImageData, heap, result, x, y, pc,
          error, input0

applyVars == <<alg, data, palette, step, hasImageData, heap, result, x, y, pc,
               error, input0>>

\* findClosestColor called on its own: the colour looked up and what came back
VARIABLES matchColor, matchResult

matchVars == <<matchColor, matchResult>>

\* two apply calls with the same arguments on one image object, and up to
\* MaxOther other calls before, between or after them: how many of each were made, and what the first and the
\* latest call with the same arguments returned
VARIABLES nSame, nOther, firstOut, lastOut

repeatVars == <<nSame, nOther, firstOut, lastOut>>

\* one call of ditherImage(input, options) and the registry calls made around
\* it: the registry's entries in insertion order, the call's arguments, where
\* the call stands, the message it rejected with, the pipeline functions it
\* has invoked so far, its locals, what it handed to algorithm.apply, what it
\* resolved with, and how many registry calls were made
VARIABLES registry, options, input, hasWindow, ppc, perr, trace, imageData,
          resizedData, applied, output, regOps

pipeVars == <<registry, options, input, hasWindow, ppc, perr, trace, imageData,
              resizedData, applied, output, regOps>>

\* several ditherImage calls in flight at once: one record per call
VARIABLES calls

concVars == <<calls>>

\* the registry used on its own: the register and clear calls made so far
VARIABLES regLog

regVars == <<regLog>>

\* a function of the program called on its own: its arguments and what it
\* returned
VARIABLES args, ret

fnVars == <<args, ret>>

\* autoDitherDOM in a page: the matched img elements, each with the state of
\* its processImage promise, and the state of the promise autoDitherDOM
\* returned
VARIABLES images, autoDither

domVars == <<images, autoDither>>

restVars == <<concVars, regVars, fnVars, domVars>>

vars == <<applyVars, matchVars, repeatVars, pipeVars, restVars>>

\* what a step of a single apply call leaves alone
notApply == <<matchVars, repeatVars, pipeVars, restVars>>

\* the parts of the state a specification does not use stay as they are here
ApplyIdle ==
  /\ alg = ""
  /\ data = [data |-> 0, width |-> 0, height |-> 0]
  /\ step = 0
  /\ hasImageData = FALSE
  /\ heap = <<>>
  /\ result = None
  /\ x = 0
  /\ y = 0
  /\ pc = "idle"
  /\ error = ""
  /\ input0 = [bytes |-> <<>>, width |-> 0, height |-> 0]
MatchIdle == matchColor = <<>> /\ matchResult = None
RepeatIdle == nSame = 0 /\ nOther = 0 /\ firstOut = None /\ lastOut = None
PipeIdle ==
  /\ registry = <<>>
  /\ options = <<>>
  /\ input = ""
  /\ hasWindow = FALSE
  /\ ppc = "idle"
  /\ perr = ""
  /\ trace = <<>>
  /\ imageData = None
  /\ resizedData = None
  /\ applied = None
  /\ output = None
  /\ regOps = 0
DomIdle == images = <<>> /\ autoDither = "idle"
RestIdle == calls = <<>> /\ regLog = <<>> /\ args = <<>> /\ ret = None /\ DomIdle

Algorithms == {"atkinson", "floyd-steinberg", "ordered"}

\* RGBA samples the input images are built from
PixelSamples == << <<0, 0, 0, 255>>, <<255, 255, 255, 0>>, <<120, 130, 140, 128>> >>

\* the image whose pixel (px, py) is sample (a*px + b*py + c) mod m
ImageBytes(width, height, a, b, c, m) ==
  [k \in 1 .. width * height * 4 |->
     LET px == ((k - 1) \div 4) % width
         py == ((k - 1) \div 4) \div width
     IN  PixelSamples[((a * px + b * py + c) % m) + 1][((k - 1) % 4) + 1]]

ImageSamples(width, height) ==
  { ImageBytes(width, height, a, b, c, m) :
      a \in 0 .. 2, b \in 0 .. 2, c \in 0 .. 2, m \in 2 .. Len(PixelSamples) }

PaletteSamples == { <<>>, BW, <<White, <<128, 128, 128>>, Black>> }

StepSamples == -1 .. MaxStep

\* applyCheck with the two checks in the other order
applyCheck_StepFirst(pal, st) ==
  IF st < 1 THEN Throw(StepMsg)
  ELSE IF Len(pal) = 0 THEN Throw(EmptyPaletteMsg)
  ELSE Ok(<<>>)

\* applyCheck that lets step 0 through
applyCheck_StepZero(pal, st) ==
  IF Len(pal) = 0 THEN Throw(EmptyPaletteMsg)
  ELSE IF st < 0 THEN Throw(StepMsg)
  ELSE Ok(<<>>)

\* the two checks every built-in apply starts with
applyCheck(pal, st) ==
  IF Len(pal) = 0 THEN Throw(EmptyPaletteMsg)
  ELSE IF st < 1 THEN Throw(StepMsg)
  ELSE Ok(<<>>)

\* apply working in place: the result is the input image itself
createImageData_InPlace(h, d, hasID) == [heap |-> h, image |-> d]

\* createImageDataCrossPlatform(data.data, width, height): without the copy
\* made by the caller, the mock ImageData of Node wraps the input's own buffer
createImageData_NodeAlias(h, d, hasID) ==
  IF hasID
  THEN [heap |-> Append(h, h[d.data]),
        image |-> [data |-> Len(h) + 1, width |-> d.width, height |-> d.height]]
  ELSE [heap |-> h, image |-> d]

\* createImageDataCrossPlatform(new Uint8ClampedArray(data.data), width, height):
\* the argument is a fresh copy; where ImageData exists it is copied once more
createImageDataCrossPlatform(h, d, hasID) ==
  LET copy == Append(h, h[d.data])
      safe == IF hasID THEN Append(copy, copy[Len(copy)]) ELSE copy
  IN  [heap |-> safe,
       image |-> [data |-> Len(safe), width |-> d.width, height |-> d.height]]

InitApply ==
  /\ alg \in Algorithms
  /\ \E w \in 1 .. MaxW, h \in 1 .. MaxH :
       \E bytes \in ImageSamples(w, h) :
         /\ heap = <<bytes>>
         /\ data = [data |-> 1, width |-> w, height |-> h]
         /\ input0 = [bytes |-> bytes, width |-> w, height |-> h]
  /\ palette \in PaletteSamples
  /\ step \in StepSamples
  /\ hasImageData \in BOOLEAN
  /\ result = None
  /\ x = 0
  /\ y = 0
  /\ pc = "call"
  /\ error = ""
  /\ MatchIdle
  /\ RepeatIdle
  /\ PipeIdle
  /\ RestIdle

\* apply throws from its checks
ApplyThrow ==
  /\ pc = "call"
  /\ ~applyCheck(palette, step).ok
  /\ pc' = "threw"
  /\ error' = applyCheck(palette, step).error
  /\ UNCHANGED <<alg, data, palette, step, hasImageData, heap, result, x, y, input0>>
  /\ UNCHANGED notApply

\* apply passes its checks and allocates the result
ApplyAlloc ==
  /\ pc = "call"
  /\ applyCheck(palette, step).ok
  /\ LET made == createImageDataCrossPlatform(heap, data, hasImageData)
     IN  /\ heap' = made.heap
         /\ result' = Some(made.image)
  /\ x' = 0
  /\ y' = 0
  /\ pc' = "loop"
  /\ UNCHANGED <<alg, data, palette, step, hasImageData, error, input0>>
  /\ UNCHANGED notApply

\* for (y = 0; y < height; y += step) for (x = 0; x < width; x += step)
Advance ==
  /\ x' = IF x + step < data.width THEN x + step ELSE 0
  /\ y' = IF x + step < data.width THEN y ELSE y + step

Pixels == heap[The(result).data]

AtkinsonStep ==
  /\ pc = "loop" /\ alg = "atkinson" /\ y < data.height
  /\ heap' = [heap EXCEPT ![The(result).data] =
                atkinsonBody(@, x, y, data.width, data.height, palette, step)]
  /\ Advance
  /\ UNCHANGED <<alg, data, palette, step, hasImageData, result, pc, error, input0>>
  /\ UNCHANGED notApply

FloydSteinbergStep ==
  /\ pc = "loop" /\ alg = "floyd-steinberg" /\ y < data.height
  /\ heap' = [heap EXCEPT ![The(result).data] =
                floydSteinbergBody(@, x, y, data.width, data.height, palette, step)]
  /\ Advance
  /\ UNCHANGED <<alg, data, palette, step, hasImageData, result, pc, error, input0>>
  /\ UNCHANGED notApply

OrderedStep ==
  /\ pc = "loop" /\ alg = "ordered" /\ y < data.height
  /\ \E rnd \in RandDraws :
       heap' = [heap EXCEPT ![The(result).data] =
                  orderedBody(@, x, y, data.width, data.height, palette, step, rnd)]
  /\ Advance
  /\ UNCHANGED <<alg, data, palette, step, hasImageData, result, pc, error, input0>>
  /\ UNCHANGED notApply

ApplyReturn ==
  /\ pc = "loop" /\ y >= data.height
  /\ pc' = "returned"
  /\ UNCHANGED <<alg, data, palette, step, hasImageData, heap, result, x, y, error, input0>>
  /\ UNCHANGED notApply

NextApply ==
  \/ ApplyThrow
  \/ ApplyAlloc
  \/ AtkinsonStep
  \/ FloydSteinbergStep
  \/ OrderedStep
  \/ ApplyReturn

Spec == InitApply /\ [][NextApply]_vars

(***************************************************************************)
(* Reading the image apply returned.                                       *)
(***************************************************************************)
Returned == pc = "returned"
ResultPixels == heap[The(result).data]
Coords == (0 .. data.width - 1) \X (0 .. data.height - 1)
RGBAt(pixels, p) ==
  LET i == (p[2] * data.width + p[1]) * 4
  IN  <<At(pixels, i), At(pixels, i + 1), At(pixels, i + 2)>>
AlphaAt(pixels, p) == At(pixels, (p[2] * data.width + p[1]) * 4 + 3)
PaletteColors == { palette[i] : i \in 1 .. Len(palette) }
AnchorOf(p) == <<p[1] - (p[1] % step), p[2] - (p[2] % step)>>
IsAnchor(p) == AnchorOf(p) = p

\* C1: palette closure. Every pixel of the image returned by apply, for every
\* built-in algorithm and every step >= 1, has an RGB triple of the palette.
C1_PaletteClosure ==
  Returned => \A p \in Coords : RGBAt(ResultPixels, p) \in PaletteColors

\* C2: step-block uniformity. For step > 1 every pixel of the returned image
\* has the RGB triple of the anchor (top-left pixel) of its step-by-step block.
C2_BlockUniformity ==
  (Returned /\ step > 1) =>
     \A p \in Coords : RGBAt(ResultPixels, p) = RGBAt(ResultPixels, AnchorOf(p))

\* C3: alpha normalization. Every pixel of the returned image, anchor or not,
\* has alpha 255 whatever the input alpha was.
C3_AlphaNormalized ==
  Returned => \A p \in Coords : AlphaAt(ResultPixels, p) = 255

\* C4: apply never writes to the caller's input. In every state of a call, and
\* so after it returned or threw, the input's bytes, width and height are what
\* the caller passed; a returned image has a buffer other than the input's,
\* the input's width and height, and width * height * 4 bytes.
C4_InputUntouched ==
  /\ heap[data.data] = input0.bytes
  /\ data.width = input0.width
  /\ data.height = input0.height
  /\ Returned =>
       LET r == The(result)
       IN  /\ r.data # data.data
           /\ r.width = data.width
           /\ r.height = data.height
           /\ Len(heap[r.data]) = data.width * data.height * 4

\* apply returned an image that differs from its input
C4_Witness == Returned /\ ResultPixels # input0.bytes

\* C7: with an empty palette apply throws 'Palette cannot be empty' whatever
\* the step is, before a buffer is allocated and without a result; no default
\* palette is used in its place.
C7_EmptyPaletteRejected ==
  (Len(palette) = 0 /\ pc # "call") =>
     /\ pc = "threw"
     /\ error = EmptyPaletteMsg
     /\ result = None
     /\ heap = <<input0.bytes>>

\* apply threw on an empty palette with a step below 1
C7_Witness == pc = "threw" /\ Len(palette) = 0 /\ step < 1

\* C8: with a non-empty palette, apply with a step below 1 throws
\* 'Step must be >= 1' and returns no image, and apply with a step >= 1
\* terminates and returns an image.
C8_StepRejected ==
  (Len(palette) > 0 /\ step < 1 /\ pc # "call") =>
     (pc = "threw" /\ error = StepMsg /\ result = None)

\* the number of steps a call can still take, at most
C8_Rank ==
  CASE pc = "call" -> (data.height + 1) * (data.width + 1) + 2
    [] pc = "loop" -> 1 + Max(0, data.height - y) * (data.width + 1) + (data.width - x)
    [] OTHER -> 0

C8_Valid == Len(palette) > 0 /\ step >= 1

\* termination is stated on finite runs: every step of a valid call lowers
\* C8_Rank, and a valid call that has ended has returned an image
C8_StepValidation ==
  /\ []C8_StepRejected
  /\ []((C8_Valid /\ pc \notin {"call", "loop"}) => (Returned /\ IsSome(result)))
  /\ [][C8_Valid => C8_Rank' < C8_Rank]_vars

\* apply threw on step 0 with a non-empty palette
C8_Witness == pc = "threw" /\ Len(palette) > 0 /\ step = 0

(***************************************************************************)
(* findClosestColor of palette/utils.ts, called on a colour and a palette  *)
(* drawn from the samples.                                                 *)
(***************************************************************************)
ChannelSamples == {0, 127, 128, 255}
ColorSamples == ChannelSamples \X ChannelSamples \X ChannelSamples
PaletteEntrySamples == {Black, White, Red, Green, <<128, 128, 128>>}
PalettesUpTo(n) == {<<>>} \cup UNION { [1 .. k -> PaletteEntrySamples] : k \in 1 .. n }

InitMatch ==
  /\ palette \in PalettesUpTo(MaxPaletteLen)
  /\ matchColor \in ColorSamples
  /\ matchResult = None
  /\ ApplyIdle
  /\ RepeatIdle
  /\ PipeIdle
  /\ RestIdle

FindClosest ==
  /\ matchResult = None
  /\ matchResult' = Some(findClosestColor(matchColor, palette))
  /\ UNCHANGED <<applyVars, matchColor, repeatVars, pipeVars, restVars>>

NextMatch == FindClosest

SpecMatch == InitMatch /\ [][NextMatch]_vars

\* squared Euclidean distance in RGB space
C5_DistSq(c1, c2) ==
  (c1[1] - c2[1]) * (c1[1] - c2[1]) + (c1[2] - c2[2]) * (c1[2] - c2[2])
    + (c1[3] - c2[3]) * (c1[3] - c2[3])

\* entry i is at the smallest distance and no earlier entry is
C5_FirstNearest(i) ==
  /\ \A j \in 1 .. Len(palette) :
       C5_DistSq(matchColor, palette[i]) <= C5_DistSq(matchColor, palette[j])
  /\ \A j \in 1 .. i - 1 :
       C5_DistSq(matchColor, palette[i]) < C5_DistSq(matchColor, palette[j])

\* C5: on a non-empty palette findClosestColor returns the entry at the
\* smallest Euclidean distance, the lowest-indexed one when several are at that
\* distance; with [[0,0,0],[255,255,255]] it returns black for [127,127,127]
\* and white for [128,128,128]; on an empty palette it throws
\* 'Palette cannot be empty'.
C5_ClosestColor ==
  IsSome(matchResult) =>
    LET r == The(matchResult)
    IN  IF Len(palette) = 0
        THEN ~r.ok /\ r.error = EmptyPaletteMsg
        ELSE /\ r.ok
             /\ \E i \in 1 .. Len(palette) : C5_FirstNearest(i) /\ r.value = palette[i]
             /\ (palette = BW /\ matchColor = <<127, 127, 127>>) => r.value = Black
             /\ (palette = BW /\ matchColor = <<128, 128, 128>>) => r.value = White

\* two different entries are both nearest and the earlier one was returned
C5_Witness ==
  /\ IsSome(matchResult)
  /\ \E i, j \in 1 .. Len(palette) :
       /\ i < j
       /\ palette[i] # palette[j]
       /\ C5_FirstNearest(i)
       /\ C5_DistSq(matchColor, palette[j]) = C5_DistSq(matchColor, palette[i])
       /\ The(matchResult).value = palette[i]

(***************************************************************************)
(* Whole calls of apply, made one after the other on the same image object *)
(* by a caller that reads each result and drops it.                        *)
(***************************************************************************)
RECURSIVE applyLoop(_, _, _, _, _, _, _, _, _)
applyLoop(name, pixels, cx, cy, width, height, pal, st, rnd) ==
  IF cy >= height THEN pixels
  ELSE LET done == CASE name = "atkinson" ->
                          atkinsonBody(pixels, cx, cy, width, height, pal, st)
                     [] name = "floyd-steinberg" ->
                          floydSteinbergBody(pixels, cx, cy, width, height, pal, st)
                     [] name = "ordered" ->
                          orderedBody(pixels, cx, cy, width, height, pal, st, rnd)
       IN  applyLoop(name, done,
                     IF cx + st < width THEN cx + st ELSE 0,
                     IF cx + st < width THEN cy ELSE cy + st,
                     width, height, pal, st, rnd)

\* apply writing its result into the buffer of the image it was given
applyRun_InPlace(h, name, d, pal, st, hasID, rnd) ==
  IF ~applyCheck(pal, st).ok
  THEN [ok |-> FALSE, error |-> applyCheck(pal, st).error, heap |-> h, image |-> None]
  ELSE [ok |-> TRUE, error |-> "",
        heap |-> [h EXCEPT ![d.data] =
                    applyLoop(name, @, 0, 0, d.width, d.height, pal, st, rnd)],
        image |-> Some(d)]

\* apply(d, pal, st) of the algorithm `name` on heap h; an ordered call draws
\* rnd at every anchor
applyRun(h, name, d, pal, st, hasID, rnd) ==
  LET chk == applyCheck(pal, st)
  IN  IF ~chk.ok
      THEN [ok |-> FALSE, error |-> chk.error, heap |-> h, image |-> None]
      ELSE LET made == createImageDataCrossPlatform(h, d, hasID)
           IN  [ok |-> TRUE, error |-> "",
                heap |-> [made.heap EXCEPT ![made.image.data] =
                            applyLoop(name, @, 0, 0, d.width, d.height, pal, st, rnd)],
                image |-> Some(made.image)]

ValidPalettes == { p \in PaletteSamples : Len(p) > 0 }

InitRepeat ==
  /\ alg \in {"atkinson", "floyd-steinberg"}
  /\ \E w \in 1 .. MaxW, h \in 1 .. MaxH :
       \E bytes \in ImageSamples(w, h) :
         /\ heap = <<bytes>>
         /\ data = [data |-> 1, width |-> w, height |-> h]
         /\ input0 = [bytes |-> bytes, width |-> w, height |-> h]
  /\ palette \in ValidPalettes
  /\ step \in 1 .. MaxStep
  /\ hasImageData \in BOOLEAN
  /\ result = None
  /\ x = 0
  /\ y = 0
  /\ pc = "idle"
  /\ error = ""
  /\ MatchIdle
  /\ RepeatIdle
  /\ PipeIdle
  /\ RestIdle

\* the call under observation: alg.apply(data, palette, step)
CallSame ==
  /\ nSame < 2
  /\ LET run == applyRun(heap, alg, data, palette, step, hasImageData, <<0, 0, 0>>)
         out == run.heap[The(run.image).data]
     IN  /\ lastOut' = Some(out)
         /\ firstOut' = IF firstOut = None THEN Some(out) ELSE firstOut
         /\ heap' = SubSeq(run.heap, 1, Len(heap))
  /\ nSame' = nSame + 1
  /\ UNCHANGED <<alg, data, palette, step, hasImageData, result, x, y, pc, error, input0>>
  /\ UNCHANGED <<matchVars, nOther, pipeVars, restVars>>

\* another call on the same image object, with one argument changed
CallOther ==
  /\ nOther < MaxOther
  /\ \E name \in Algorithms, pal \in ValidPalettes, st \in 1 .. MaxStep :
       /\ Cardinality({ i \in 1 .. 3 : <<name, pal, st>>[i] # <<alg, palette, step>>[i] }) = 1
       /\ LET run == applyRun(heap, name, data, pal, st, hasImageData, <<0, 0, 0>>)
          IN  heap' = SubSeq(run.heap, 1, Len(heap))
  /\ nOther' = nOther + 1
  /\ UNCHANGED <<alg, data, palette, step, hasImageData, result, x, y, pc, error, input0>>
  /\ UNCHANGED <<matchVars, nSame, firstOut, lastOut, pipeVars, restVars>>

NextRepeat ==
  \/ CallSame
  \/ CallOther

SpecRepeat == InitRepeat /\ [][NextRepeat]_vars

\* C6: Atkinson and Floyd-Steinberg apply are deterministic and stateless. Any
\* two calls with the same image, palette and step return the same bytes,
\* whatever other apply calls were made before or between them.
C6_Deterministic ==
  (IsSome(firstOut) /\ IsSome(lastOut)) => firstOut = lastOut

\* two calls with the same arguments and another call were made, and the
\* calls changed their output buffers
C6_Witness ==
  /\ nSame >= 2
  /\ nOther >= 1
  /\ IsSome(lastOut)
  /\ The(lastOut) # input0.bytes

(***************************************************************************)
(* The algorithm registry: a Map from name to algorithm, kept here as the  *)
(* sequence of its entries in insertion order.  An entry's impl says whose *)
(* apply it carries.                                                       *)
(***************************************************************************)
MaxRegistryOps == 2

BuiltIns ==
  << [name |-> "atkinson", impl |-> "atkinson"],
     [name |-> "floyd-steinberg", impl |-> "floyd-steinberg"],
     [name |-> "ordered", impl |-> "ordered"] >>

\* register that adds an entry whether or not the name is present
register_Append(reg, algorithm) == Append(reg, algorithm)

\* register that leaves a name already present as it is
register_KeepFirst(reg, algorithm) ==
  IF \E i \in 1 .. Len(reg) : reg[i].name = algorithm.name
  THEN reg
  ELSE Append(reg, algorithm)

\* Map.set: a name already present keeps its place and takes the new value
register(reg, algorithm) ==
  IF \E i \in 1 .. Len(reg) : reg[i].name = algorithm.name
  THEN [i \in 1 .. Len(reg) |->
          IF reg[i].name = algorithm.name THEN algorithm ELSE reg[i]]
  ELSE Append(reg, algorithm)

get(reg, name) ==
  LET hits == { i \in 1 .. Len(reg) : reg[i].name = name }
  IN  IF hits = {} THEN None ELSE Some(reg[CHOOSE i \in hits : TRUE])

\* Array.from(this.algorithms.keys()): the names in insertion order
list(reg) == [i \in 1 .. Len(reg) |-> reg[i].name]

clear(reg) == <<>>

UnknownAlgorithmMsg(algorithmName) == "Unknown algorithm: " \o algorithmName

getAlgorithm(reg, algorithmName) ==
  LET algorithm == get(reg, algorithmName)
  IN  IF algorithm = None THEN Throw(UnknownAlgorithmMsg(algorithmName))
      ELSE Ok(The(algorithm))

(***************************************************************************)
(* ditherImage(input, options).  An option that is not given is None.      *)
(* quality is counted in hundredths, so the range 0 to 1 is 0 .. 100.      *)
(***************************************************************************)
StepOptionMsg == "Step must be greater than 0"
QualityMsg == "Quality must be between 0 and 1"
WidthMsg == "Width must be greater than 0"
HeightMsg == "Height must be greater than 0"
InvalidAlgorithmMsg(algorithm) == "Invalid algorithm: " \o algorithm
LoadFailedMsg == "Failed to load image"
ImageDataCtorMsg == "Failed to construct 'ImageData'"

validAlgorithms == <<"atkinson", "floyd-steinberg", "ordered">>

includes(items, v) == \E i \in 1 .. Len(items) : items[i] = v

\* validateOptions without the width check
validateOptions_NoWidth(o) ==
  IF IsSome(o.step) /\ The(o.step) <= 0 THEN Throw(StepOptionMsg)
  ELSE IF IsSome(o.quality) /\ (The(o.quality) < 0 \/ The(o.quality) > 100)
  THEN Throw(QualityMsg)
  ELSE IF IsSome(o.height) /\ The(o.height) <= 0 THEN Throw(HeightMsg)
  ELSE IF IsSome(o.palette) /\ Len(The(o.palette)) = 0 THEN Throw(EmptyPaletteMsg)
  ELSE IF IsSome(o.algorithm) /\ ~includes(validAlgorithms, The(o.algorithm))
  THEN Throw(InvalidAlgorithmMsg(The(o.algorithm)))
  ELSE Ok(<<>>)

validateOptions(o) ==
  IF IsSome(o.step) /\ The(o.step) <= 0 THEN Throw(StepOptionMsg)
  ELSE IF IsSome(o.quality) /\ (The(o.quality) < 0 \/ The(o.quality) > 100)
  THEN Throw(QualityMsg)
  ELSE IF IsSome(o.width) /\ The(o.width) <= 0 THEN Throw(WidthMsg)
  ELSE IF IsSome(o.height) /\ The(o.height) <= 0 THEN Throw(HeightMsg)
  ELSE IF IsSome(o.palette) /\ Len(The(o.palette)) = 0 THEN Throw(EmptyPaletteMsg)
  ELSE IF IsSome(o.algorithm) /\ ~includes(validAlgorithms, The(o.algorithm))
  THEN Throw(InvalidAlgorithmMsg(The(o.algorithm)))
  ELSE Ok(<<>>)

\* a number option that JavaScript takes as true: given and not 0
Truthy(o) == IsSome(o) /\ The(o) # 0

\* loadInputImageData: an ImageData comes back as it is, anything else goes
\* to the loader, which decodes it into a new buffer or fails
InputPixels == <<0, 0, 0, 255, 120, 130, 140, 128>>
InputImage == [data |-> 1, width |-> 2, height |-> 1]

loadInputImageData(h, source) ==
  CASE source = "imageData" -> [ok |-> TRUE, error |-> "", heap |-> h, image |-> InputImage]
    [] source = "loadable" ->
         [ok |-> TRUE, error |-> "", heap |-> Append(h, InputPixels),
          image |-> [InputImage EXCEPT !.data = Len(h) + 1]]
    [] source = "unloadable" ->
         [ok |-> FALSE, error |-> LoadFailedMsg, heap |-> h, image |-> InputImage]

\* applyResize: the image itself when no size is asked for, otherwise what
\* the async resizeImageData returns at once, a promise of the resized image
applyResize(image, o) ==
  IF ~Truthy(o.width) /\ ~Truthy(o.height)
  THEN [kind |-> "image", image |-> image]
  ELSE [kind |-> "promise", image |-> image]

(***************************************************************************)
(* extractColorsFromImageData(imageData).  A colour key                    *)
(* is the string `${r},${g},${b}`, kept as the sequence of its characters. *)
(***************************************************************************)
Digits == <<"0", "1", "2", "3", "4", "5", "6", "7", "8", "9">>

\* String(n) for a non-negative integer
RECURSIVE decimal(_)
decimal(n) ==
  IF n < 10 THEN <<Digits[n + 1]>>
  ELSE Append(decimal(n \div 10), Digits[(n % 10) + 1])

colorKey(r, g, b) == decimal(r) \o <<",">> \o decimal(g) \o <<",">> \o decimal(b)

\* key.split(','): the pieces between the commas
RECURSIVE split(_, _, _)
split(key, i, piece) ==
  IF i > Len(key) THEN <<piece>>
  ELSE IF key[i] = "," THEN <<piece>> \o split(key, i + 1, <<>>)
  ELSE split(key, i + 1, Append(piece, key[i]))

\* Number(piece) for a string of decimal digits
RECURSIVE Number(_, _)
Number(piece, i) ==
  IF i = 0 THEN 0
  ELSE 10 * Number(piece, i - 1)
       + (CHOOSE d \in 0 .. 9 : Digits[d + 1] = piece[i])

\* Set.add: a key already in the set stays where it is
add(colorSet, key) ==
  IF \E i \in 1 .. Len(colorSet) : colorSet[i] = key THEN colorSet
  ELSE Append(colorSet, key)

\* the first loop: the keys of the pixels that are not fully transparent
RECURSIVE scanColors(_, _, _)
scanColors(bytes, i, colorSet) ==
  IF i >= Len(bytes) THEN colorSet
  ELSE IF At(bytes, i + 3) = 0 THEN scanColors(bytes, i + 4, colorSet)
  ELSE scanColors(bytes, i + 4,
                  add(colorSet, colorKey(At(bytes, i), At(bytes, i + 1), At(bytes, i + 2))))

\* colorKey.split(',').map(Number) and its two checks
parseKey(key) ==
  IF Len(split(key, 1, <<>>)) # 3 THEN Throw("Invalid color key format")
  ELSE Ok([k \in 1 .. 3 |-> Number(split(key, 1, <<>>)[k], Len(split(key, 1, <<>>)[k]))])

\* 1000 times the luminance 0.299 r + 0.587 g + 0.114 b
luminance(c) == 299 * c[1] + 587 * c[2] + 114 * c[3]

\* a before b in dictionary order: -1, equal: 0, after: 1
lexCompare(a, b) ==
  IF a = b THEN 0
  ELSE IF \E k \in 1 .. 3 : a[k] < b[k] /\ \A j \in 1 .. k - 1 : a[j] = b[j] THEN -1
  ELSE 1

\* the sort comparator with the colours the other way round
compareLuminance_Descending(a, b, tie) ==
  IF luminance(a) # luminance(b) THEN luminance(b) - luminance(a)
  ELSE tie * lexCompare(a, b)

\* the sort comparator luminanceA - luminanceB.  The program computes the
\* two luminances in floating point: where they differ the sign is that of
\* the exact difference, and where two colours have the same exact
\* luminance rounding may put either first or neither (tie is 1, -1 or 0)
compareLuminance(a, b, tie) ==
  IF luminance(a) # luminance(b) THEN luminance(a) - luminance(b)
  ELSE tie * lexCompare(a, b)

\* Array.prototype.sort is stable: c goes behind everything not after it
RECURSIVE insertSorted(_, _, _, _)
insertSorted(sorted, c, i, tie) ==
  IF i = 0 \/ compareLuminance(sorted[i], c, tie) <= 0
  THEN SubSeq(sorted, 1, i) \o <<c>> \o SubSeq(sorted, i + 1, Len(sorted))
  ELSE insertSorted(sorted, c, i - 1, tie)

RECURSIVE sortColors(_, _, _)
sortColors(pal, n, tie) ==
  IF n = 0 THEN <<>>
  ELSE insertSorted(sortColors(pal, n - 1, tie), pal[n], n - 1, tie)

extractFromKeys(colorSet, tie) ==
  IF \E i \in 1 .. Len(colorSet) : ~parseKey(colorSet[i]).ok
  THEN parseKey(colorSet[CHOOSE i \in 1 .. Len(colorSet) : ~parseKey(colorSet[i]).ok])
  ELSE Ok(sortColors([i \in 1 .. Len(colorSet) |-> parseKey(colorSet[i]).value],
                     Len(colorSet), tie))

extractColorsFromImageData(bytes, tie) ==
  extractFromKeys(scanColors(bytes, 0, <<>>), tie)

\* the data of an image with the pixels px
Flatten(px) == [k \in 1 .. 4 * Len(px) |-> px[((k - 1) \div 4) + 1][((k - 1) % 4) + 1]]

\* the palette images of the calls: one with an opaque white, an opaque red
\* and a nearly transparent black pixel, one with fully transparent pixels
\* only
ColorsImage == Flatten(<< <<255, 255, 255, 255>>, <<255, 0, 0, 255>>, <<0, 0, 0, 1>> >>)
TransparentImage == Flatten(<< <<0, 0, 0, 0>>, <<255, 255, 255, 0>> >>)

\* generatePalette: the colours extracted from the palette image once it is
\* loaded; fails when the image cannot be loaded
ColorsExtracted == extractColorsFromImageData(ColorsImage, 0)
TransparentExtracted == extractColorsFromImageData(TransparentImage, 0)

generatePalette(paletteImg) ==
  CASE paletteImg = "colors" -> ColorsExtracted
    [] paletteImg = "transparent" -> TransparentExtracted
    [] paletteImg = "missing" -> Throw(LoadFailedMsg)

\* determinePalette that looks at the palette image first
determinePalette_ImgFirst(o) ==
  IF IsSome(o.paletteImg) THEN generatePalette(The(o.paletteImg))
  ELSE IF IsSome(o.palette) THEN Ok(The(o.palette))
  ELSE Ok(BW)

determinePalette(o) ==
  IF IsSome(o.palette) THEN Ok(The(o.palette))
  ELSE IF IsSome(o.paletteImg) THEN generatePalette(The(o.paletteImg))
  ELSE Ok(BW)

\* determinePalette gets as far as calling generatePalette
readsPaletteImg(o) == ~IsSome(o.palette) /\ IsSome(o.paletteImg)

\* the width and height read off an object that has none
UndefinedDim == -1

\* what a registered algorithm of another author does is up to its author;
\* this one returns a one-pixel image of its own whatever it is given
CustomPixels == <<0, 0, 0, 255>>

\* algorithm.apply(resized, pal, st) as ditherImage calls it.  A promise has
\* no data, width or height: a built-in apply copies an empty buffer, and
\* then either the ImageData constructor rejects it or the plain object made
\* without ImageData carries it, and no loop iteration runs
applyOn(h, impl, resized, pal, st, hasID, rnd) ==
  IF impl = "custom"
  THEN [ok |-> TRUE, error |-> "", heap |-> Append(h, CustomPixels),
        image |-> Some([data |-> Len(h) + 1, width |-> 1, height |-> 1])]
  ELSE IF resized.kind = "promise"
  THEN LET chk == applyCheck(pal, st)
       IN  IF ~chk.ok
           THEN [ok |-> FALSE, error |-> chk.error, heap |-> h, image |-> None]
           ELSE IF hasID
           THEN [ok |-> FALSE, error |-> ImageDataCtorMsg, heap |-> h, image |-> None]
           ELSE [ok |-> TRUE, error |-> "", heap |-> Append(h, <<>>),
                 image |-> Some([data |-> Len(h) + 1, width |-> UndefinedDim,
                                 height |-> UndefinedDim])]
  ELSE applyRun(h, impl, resized.image, pal, st, hasID, rnd)

encodeWithQuality(image, quality) ==
  IF quality < 0 \/ quality > 100 THEN Throw(QualityMsg) ELSE Ok(image)

\* RGBA to RGB into a zeroed array of width * height * 3 bytes
convertToUint8Array(h, image) ==
  LET bytes == h[image.data]
      n == IF image.width = UndefinedDim THEN 0 ELSE image.width * image.height * 3
  IN  [j \in 1 .. n |->
         LET i == ((j - 1) \div 3) * 4 + ((j - 1) % 3) + 1
         IN  IF i <= Len(bytes) THEN bytes[i] ELSE 0]

formatForEnvironment(h, image, hasWin) ==
  IF hasWin
  THEN [kind |-> "ImageData", image |-> image, bytes |-> h[image.data]]
  ELSE [kind |-> "Uint8Array", image |-> image, bytes |-> convertToUint8Array(h, image)]

\* what the pipeline's tail hands back when it throws
thrown(msg, invoked, h, call) ==
  [ok |-> FALSE, error |-> msg, trace |-> invoked, heap |-> h,
   applied |-> call, output |-> None]

\* steps 6 and 7 of ditherImage, on what apply returned
encodeAndFormat(o, call, ditheredData, hasWin) ==
  IF IsSome(o.quality) /\ ~encodeWithQuality(ditheredData.image, The(o.quality)).ok
  THEN thrown(encodeWithQuality(ditheredData.image, The(o.quality)).error,
              <<"getAlgorithm", "apply", "encodeWithQuality">>,
              ditheredData.heap, call)
  ELSE [ok |-> TRUE, error |-> "",
        trace |-> IF IsSome(o.quality)
                  THEN <<"getAlgorithm", "apply", "encodeWithQuality",
                         "formatForEnvironment">>
                  ELSE <<"getAlgorithm", "apply", "formatForEnvironment">>,
        heap |-> ditheredData.heap,
        applied |-> call,
        output |-> Some(formatForEnvironment(ditheredData.heap,
                                             The(ditheredData.image), hasWin))]

\* step 5 of ditherImage and what follows it, on what apply did
afterApply(o, call, h, ditheredData, hasWin) ==
  IF ~ditheredData.ok
  THEN thrown(ditheredData.error, <<"getAlgorithm", "apply">>, h, call)
  ELSE encodeAndFormat(o, call, ditheredData, hasWin)

\* step 4 of ditherImage and what follows it, on what getAlgorithm did
afterLookup(o, algorithm, resized, pal, st, h, hasID, hasWin, rnd) ==
  IF ~algorithm.ok
  THEN thrown(algorithm.error, <<"getAlgorithm">>, h, None)
  ELSE afterApply(o,
                  Some([algorithm |-> algorithm.value, data |-> resized,
                        palette |-> pal, step |-> st]),
                  h,
                  applyOn(h, algorithm.value.impl, resized, pal, st, hasID, rnd),
                  hasWin)

\* ditherTail falling back to the ordered algorithm and to step 2
ditherTail_OtherDefaults(reg, o, resized, pal, h, hasID, hasWin, rnd) ==
  afterLookup(o,
              getAlgorithm(reg, IF IsSome(o.algorithm) /\ The(o.algorithm) # ""
                                THEN The(o.algorithm) ELSE "ordered"),
              resized, pal, IF Truthy(o.step) THEN The(o.step) ELSE 2,
              h, hasID, hasWin, rnd)

\* steps 4 to 7 of ditherImage, which run without a pause once the palette
\* is there: what they invoke, and what they throw or return
ditherTail(reg, o, resized, pal, h, hasID, hasWin, rnd) ==
  afterLookup(o,
              getAlgorithm(reg, IF IsSome(o.algorithm) /\ The(o.algorithm) # ""
                                THEN The(o.algorithm) ELSE "atkinson"),
              resized, pal, IF Truthy(o.step) THEN The(o.step) ELSE 1,
              h, hasID, hasWin, rnd)

AlgorithmOptions ==
  {None, Some("floyd-steinberg"), Some("ordered"), Some("custom"), Some("sierra")}
PaletteOptions == {None, Some(<<>>), Some(BW)}
PaletteImgOptions == {None, Some("colors"), Some("transparent"), Some("missing")}
WidthOptions == {None, Some(0), Some(2)}
HeightOptions == {None, Some(-1), Some(1)}
StepOptions == {None} \cup { Some(s) : s \in StepSamples }
QualityOptions == {None, Some(-10), Some(50), Some(150)}

\* how many options one call gives at most
MaxGiven == 3

OptionNames ==
  {"algorithm", "palette", "paletteImg", "width", "height", "step", "quality"}

OptionValues(opt) ==
  CASE opt = "algorithm" -> AlgorithmOptions
    [] opt = "palette" -> PaletteOptions
    [] opt = "paletteImg" -> PaletteImgOptions
    [] opt = "width" -> WidthOptions
    [] opt = "height" -> HeightOptions
    [] opt = "step" -> StepOptions
    [] opt = "quality" -> QualityOptions

\* options = {}
NoOptions == [opt \in OptionNames |-> None]

\* the option objects that give at most n options
RECURSIVE GivenUpTo(_)
GivenUpTo(n) ==
  IF n = 0 THEN {NoOptions}
  ELSE LET fewer == GivenUpTo(n - 1)
       IN  fewer \cup UNION { { [o EXCEPT ![opt] = v] :
                                    o \in fewer, v \in OptionValues(opt) } :
                                opt \in OptionNames }

OptionSamples == GivenUpTo(MaxGiven)

InputSamples == {"imageData", "loadable", "unloadable"}

\* what the callers of register pass in: an algorithm under a new name, one
\* under a built-in's name, and the built-ins themselves
RegisterSamples ==
  { [name |-> "custom", impl |-> "custom"],
    [name |-> "atkinson", impl |-> "custom"] }
  \cup { BuiltIns[i] : i \in 1 .. Len(BuiltIns) }

\* the parts of a single apply call's state that a ditherImage call leaves idle
pipeUnused == <<alg, data, palette, step, result, x, y, pc, error, input0>>

InitPipe ==
  /\ registry = BuiltIns
  /\ options \in OptionSamples
  /\ input \in InputSamples
  /\ hasImageData \in BOOLEAN
  /\ hasWindow \in BOOLEAN
  /\ heap = IF input = "imageData" THEN <<InputPixels>> ELSE <<>>
  /\ ppc = "start"
  /\ perr = ""
  /\ trace = <<>>
  /\ imageData = None
  /\ resizedData = None
  /\ applied = None
  /\ output = None
  /\ regOps = 0
  /\ alg = ""
  /\ data = [data |-> 0, width |-> 0, height |-> 0]
  /\ palette = <<>>
  /\ step = 0
  /\ result = None
  /\ x = 0
  /\ y = 0
  /\ pc = "idle"
  /\ error = ""
  /\ input0 = [bytes |-> <<>>, width |-> 0, height |-> 0]
  /\ MatchIdle
  /\ RepeatIdle
  /\ RestIdle

\* the call itself, up to its first await: validateOptions, and then the
\* load of the input is started
DitherCall ==
  /\ ppc = "start"
  /\ LET valid == validateOptions(options)
     IN  IF ~valid.ok
         THEN /\ ppc' = "rejected"
              /\ perr' = valid.error
              /\ trace' = <<"validateOptions">>
         ELSE /\ ppc' = "loading"
              /\ perr' = perr
              /\ trace' = <<"validateOptions", "loadInputImageData">>
  /\ UNCHANGED <<registry, options, input, hasWindow, imageData, resizedData,
                 applied, output, regOps>>
  /\ UNCHANGED <<hasImageData, heap, pipeUnused, matchVars, repeatVars, restVars>>

\* the load settles; applyResize runs and determinePalette is started
DitherLoaded ==
  /\ ppc = "loading"
  /\ LET loaded == loadInputImageData(heap, input)
     IN  IF ~loaded.ok
         THEN /\ ppc' = "rejected"
              /\ perr' = loaded.error
              /\ trace' = trace
              /\ UNCHANGED <<heap, imageData, resizedData>>
         ELSE /\ ppc' = "palette"
              /\ perr' = perr
              /\ heap' = loaded.heap
              /\ imageData' = Some(loaded.image)
              /\ resizedData' = Some(applyResize(loaded.image, options))
              /\ trace' = trace \o <<"applyResize", "determinePalette">>
                             \o IF readsPaletteImg(options)
                                THEN <<"generatePalette">> ELSE <<>>
  /\ UNCHANGED <<registry, options, input, hasWindow, applied, output, regOps>>
  /\ UNCHANGED <<hasImageData, pipeUnused, matchVars, repeatVars, restVars>>

\* how the call ends on what its tail did
DitherEnd(tail) ==
  /\ ppc' = IF tail.ok THEN "resolved" ELSE "rejected"
  /\ perr' = tail.error
  /\ trace' = trace \o tail.trace
  /\ heap' = tail.heap
  /\ applied' = tail.applied
  /\ output' = tail.output

\* the palette settles; the rest of the pipeline runs to the end
DitherPalette ==
  /\ ppc = "palette"
  /\ IF ~determinePalette(options).ok
     THEN /\ ppc' = "rejected"
          /\ perr' = determinePalette(options).error
          /\ UNCHANGED <<trace, heap, applied, output>>
     ELSE \E rnd \in RandDraws :
            DitherEnd(ditherTail(registry, options, The(resizedData),
                                 determinePalette(options).value,
                                 heap, hasImageData, hasWindow, rnd))
  /\ UNCHANGED <<registry, options, input, hasWindow, imageData, resizedData, regOps>>
  /\ UNCHANGED <<hasImageData, pipeUnused, matchVars, repeatVars, restVars>>

\* algorithms.register(algorithm), by any code of the program, at any time
Register ==
  /\ regOps < MaxRegistryOps
  /\ \E algorithm \in RegisterSamples : registry' = register(registry, algorithm)
  /\ regOps' = regOps + 1
  /\ UNCHANGED <<options, input, hasWindow, ppc, perr, trace, imageData,
                 resizedData, applied, output>>
  /\ UNCHANGED <<applyVars, matchVars, repeatVars, restVars>>

\* algorithms.clear()
Clear ==
  /\ regOps < MaxRegistryOps
  /\ registry' = clear(registry)
  /\ regOps' = regOps + 1
  /\ UNCHANGED <<options, input, hasWindow, ppc, perr, trace, imageData,
                 resizedData, applied, output>>
  /\ UNCHANGED <<applyVars, matchVars, repeatVars, restVars>>

NextPipe ==
  \/ DitherCall
  \/ DitherLoaded
  \/ DitherPalette
  \/ Register
  \/ Clear

SpecPipe == InitPipe /\ [][NextPipe]_vars

\* the options of the call that are out of range, by name
InvalidOptions ==
  { opt \in {"step", "quality", "width", "height", "palette", "algorithm"} :
      CASE opt = "step" -> IsSome(options.step) /\ The(options.step) <= 0
        [] opt = "quality" ->
             IsSome(options.quality)
             /\ (The(options.quality) < 0 \/ The(options.quality) > 100)
        [] opt = "width" -> IsSome(options.width) /\ The(options.width) <= 0
        [] opt = "height" -> IsSome(options.height) /\ The(options.height) <= 0
        [] opt = "palette" -> IsSome(options.palette) /\ The(options.palette) = <<>>
        [] opt = "algorithm" ->
             IsSome(options.algorithm)
             /\ The(options.algorithm) \notin {"atkinson", "floyd-steinberg", "ordered"} }

\* the message is the one about the option opt
NamesOption(msg, opt) ==
  CASE opt = "step" -> msg = StepOptionMsg
    [] opt = "quality" -> msg = QualityMsg
    [] opt = "width" -> msg = WidthMsg
    [] opt = "height" -> msg = HeightMsg
    [] opt = "palette" -> msg = EmptyPaletteMsg
    [] opt = "algorithm" -> msg = InvalidAlgorithmMsg(The(options.algorithm))

\* C9: ditherImage validates its options before any other work. When step
\* <= 0, quality is outside 0 to 1, width <= 0, height <= 0, the palette is
\* empty or the algorithm name is not accepted, the call rejects with an
\* error naming such an option, having invoked nothing but validateOptions:
\* no input loaded, nothing resized, no palette image read, no algorithm
\* invoked, no buffer made, no output.
C9_ValidatesFirst ==
  (InvalidOptions # {} /\ ppc # "start") =>
    /\ ppc = "rejected"
    /\ \E opt \in InvalidOptions : NamesOption(perr, opt)
    /\ trace = <<"validateOptions">>
    /\ imageData = None
    /\ resizedData = None
    /\ applied = None
    /\ output = None
    /\ heap = IF input = "imageData" THEN <<InputPixels>> ELSE <<>>

\* a call with a bad width and more than one bad option was rejected, with
\* an input to load and a palette image to read
C9_Witness ==
  /\ ppc = "rejected"
  /\ "width" \in InvalidOptions
  /\ Cardinality(InvalidOptions) >= 2
  /\ input = "loadable"
  /\ IsSome(options.paletteImg)

\* the errors of the five kinds: empty palette, invalid step, invalid
\* quality, invalid dimension, unknown algorithm
ValidationKind(msg) ==
  \/ msg \in {EmptyPaletteMsg, StepMsg, StepOptionMsg, QualityMsg, WidthMsg, HeightMsg}
  \/ \E name \in {"atkinson", "floyd-steinberg", "ordered", "custom", "sierra"} :
       msg \in {UnknownAlgorithmMsg(name), InvalidAlgorithmMsg(name)}

\* C10: every empty-palette, invalid-step, invalid-quality, invalid-dimension
\* or unknown-algorithm error of ditherImage comes from validateOptions: a
\* call that rejected with one of them had invoked nothing after
\* validateOptions.
C10_OnlyValidationRaises ==
  (ppc = "rejected" /\ ValidationKind(perr)) => trace = <<"validateOptions">>

\* C11: ditherImage accepts an algorithm option exactly when an algorithm is
\* registered under that name at the call: a call naming a registered
\* algorithm is not rejected for its algorithm name.
C11_RegisteredAccepted ==
  [][(/\ ppc = "start"
      /\ ppc' # "start"
      /\ IsSome(options.algorithm)
      /\ get(registry, The(options.algorithm)) # None)
     => ~(ppc' = "rejected" /\ perr' = InvalidAlgorithmMsg(The(options.algorithm)))]_vars

\* the pipeline functions the call has invoked so far
Invoked == { trace[i] : i \in 1 .. Len(trace) }

\* the palette the options ask for: the explicit one, else the colours of
\* the palette image, else black and white
C12_Resolved ==
  IF options.palette # None THEN The(options.palette)
  ELSE IF options.paletteImg # None
  THEN generatePalette(The(options.paletteImg)).value
  ELSE << <<0, 0, 0>>, <<255, 255, 255>> >>

\* C12: the palette is resolved with a fixed priority, explicit palette, then
\* palette image, then black and white, and apply is handed exactly the
\* resolved palette.  With an explicit palette the palette image is never
\* loaded, so the call cannot fail on it: only the input can fail to load.
C12_PalettePriority ==
  /\ applied # None => The(applied).palette = C12_Resolved
  /\ options.palette # None =>
       /\ "generatePalette" \notin Invoked
       /\ (ppc = "rejected" /\ perr = LoadFailedMsg) => input = "unloadable"
  /\ (options.palette = None /\ options.paletteImg # None /\ applied # None) =>
       "generatePalette" \in Invoked

\* a call with an explicit palette and a palette image that cannot be loaded
\* resolved, and apply got the explicit palette
C12_Witness ==
  /\ ppc = "resolved"
  /\ options.palette = Some(BW)
  /\ options.paletteImg = Some("missing")
  /\ The(applied).palette = BW

\* C13: without an algorithm option the algorithm registered under
\* 'atkinson' is applied, without a step option step 1 is passed; an explicit
\* name or step goes through unchanged.  Stated on the step that makes the
\* apply call, against the registry as it is at that moment.
C13_Defaults ==
  [][(applied = None /\ applied' # None) =>
       /\ get(registry, IF options.algorithm = None THEN "atkinson"
                        ELSE The(options.algorithm))
            = Some(The(applied').algorithm)
       /\ The(applied').step = IF options.step = None THEN 1 ELSE The(options.step)]_vars

\* a call without algorithm and step resolved, having applied the entry
\* named atkinson with step 1
C13_Witness ==
  /\ ppc = "resolved"
  /\ options.algorithm = None
  /\ options.step = None
  /\ The(applied).algorithm.name = "atkinson"
  /\ The(applied).step = 1

\* C14: resize runs strictly before dither.  When a width or a height is
\* given, the data argument of apply is the resized ImageData, never a
\* resize that is still pending.
C14_ResizeBeforeDither ==
  (applied # None /\ (options.width # None \/ options.height # None)) =>
    The(applied).data.kind = "image"

(***************************************************************************)
(* Several ditherImage calls in flight at once, each on an ImageData the   *)
(* caller holds; the calls take turns at their await points.  Nothing      *)
(* writes to the registry meanwhile.                                       *)
(***************************************************************************)
MaxInFlight == 2

OtherPixels == <<255, 255, 255, 0, 120, 130, 140, 128>>

\* the two ImageData objects of the callers
ConcHeap0 == <<InputPixels, OtherPixels>>

ConcOptionSamples ==
  { NoOptions,
    [NoOptions EXCEPT !.algorithm = Some("floyd-steinberg")],
    [NoOptions EXCEPT !.algorithm = Some("ordered")],
    [NoOptions EXCEPT !.step = Some(2)],
    [NoOptions EXCEPT !.width = Some(2)],
    [NoOptions EXCEPT !.paletteImg = Some("missing")] }

\* the lowest and the highest draws of Math.random
ConcDraws == { <<k, k, k>> : k \in {0, RandDen - 1} }

\* a call that has not started: its arguments, and the numbers Math.random
\* will hand it if it runs the ordered algorithm
NewCalls ==
  { [options |-> o, image |-> [InputImage EXCEPT !.data = d], rnd |-> rnd,
     ppc |-> "start", perr |-> "", resizedData |-> None, output |-> None,
     overlapped |-> FALSE] :
      o \in ConcOptionSamples, d \in 1 .. Len(ConcHeap0), rnd \in ConcDraws }

InitConc ==
  /\ calls \in [1 .. MaxInFlight -> NewCalls]
  /\ calls[1].image = InputImage
  /\ \A i \in 1 .. MaxInFlight :
       calls[i].options.algorithm # Some("ordered") => calls[i].rnd = <<0, 0, 0>>
  /\ heap = ConcHeap0
  /\ hasImageData \in BOOLEAN
  /\ hasWindow \in BOOLEAN
  /\ registry = BuiltIns
  /\ options = <<>>
  /\ input = ""
  /\ ppc = "idle"
  /\ perr = ""
  /\ trace = <<>>
  /\ imageData = None
  /\ resizedData = None
  /\ applied = None
  /\ output = None
  /\ regOps = 0
  /\ alg = ""
  /\ data = [data |-> 0, width |-> 0, height |-> 0]
  /\ palette = <<>>
  /\ step = 0
  /\ result = None
  /\ x = 0
  /\ y = 0
  /\ pc = "idle"
  /\ error = ""
  /\ input0 = [bytes |-> <<>>, width |-> 0, height |-> 0]
  /\ MatchIdle
  /\ RepeatIdle
  /\ regLog = <<>>
  /\ args = <<>>
  /\ ret = None
  /\ DomIdle

\* what a step of one of the calls leaves alone
concUnused ==
  <<hasImageData, hasWindow, registry, options, input, ppc, perr, trace,
    imageData, resizedData, applied, output, regOps, pipeUnused, matchVars,
    repeatVars, regVars, fnVars, domVars>>

InFlight(c) == c.ppc \in {"loading", "palette"}

\* call i starts: validateOptions, then the await of loadInputImageData
ConcCall(i) ==
  /\ calls[i].ppc = "start"
  /\ calls' = [calls EXCEPT
       ![i].ppc = IF validateOptions(calls[i].options).ok THEN "loading" ELSE "rejected",
       ![i].perr = validateOptions(calls[i].options).error,
       ![i].overlapped = \E j \in 1 .. Len(calls) : j # i /\ InFlight(calls[j])]
  /\ UNCHANGED <<heap, concUnused>>

\* call i resumes with its image: applyResize, then the await of
\* determinePalette
ConcLoaded(i) ==
  /\ calls[i].ppc = "loading"
  /\ calls' = [calls EXCEPT
       ![i].ppc = "palette",
       ![i].resizedData = Some(applyResize(calls[i].image, calls[i].options))]
  /\ UNCHANGED <<heap, concUnused>>

\* how call i ends on what its tail did
ConcEnd(i, tail) ==
  /\ calls' = [calls EXCEPT
       ![i].ppc = IF tail.ok THEN "resolved" ELSE "rejected",
       ![i].perr = tail.error,
       ![i].output = tail.output]
  /\ heap' = tail.heap

\* call i resumes with its palette and runs to the end
ConcPalette(i) ==
  /\ calls[i].ppc = "palette"
  /\ IF ~determinePalette(calls[i].options).ok
     THEN /\ calls' = [calls EXCEPT
                ![i].ppc = "rejected",
                ![i].perr = determinePalette(calls[i].options).error]
          /\ heap' = heap
     ELSE ConcEnd(i, ditherTail(registry, calls[i].options, The(calls[i].resizedData),
                                determinePalette(calls[i].options).value,
                                heap, hasImageData, hasWindow, calls[i].rnd))
  /\ UNCHANGED concUnused

NextConc ==
  \E i \in 1 .. Len(calls) :
    \/ ConcCall(i)
    \/ ConcLoaded(i)
    \/ ConcPalette(i)

SpecConc == InitConc /\ [][NextConc]_vars

\* what a caller can see of an output: its kind, size and bytes
Seen(out) ==
  IF out = None THEN None
  ELSE Some([kind |-> The(out).kind, width |-> The(out).image.width,
             height |-> The(out).image.height, bytes |-> The(out).bytes])

\* how a tail ends, as its caller sees it
Outcome(tail) ==
  [ppc |-> IF tail.ok THEN "resolved" ELSE "rejected", perr |-> tail.error,
   output |-> Seen(tail.output)]

\* the call c run from start to end with no other call around
ditherAlone(c, hasID, hasWin) ==
  IF ~validateOptions(c.options).ok
  THEN [ppc |-> "rejected", perr |-> validateOptions(c.options).error, output |-> None]
  ELSE IF ~determinePalette(c.options).ok
  THEN [ppc |-> "rejected", perr |-> determinePalette(c.options).error, output |-> None]
  ELSE Outcome(ditherTail(BuiltIns, c.options, applyResize(c.image, c.options),
                          determinePalette(c.options).value,
                          ConcHeap0, hasID, hasWin, c.rnd))

Settled(c) == c.ppc \in {"resolved", "rejected"}

\* C15: concurrent ditherImage calls do not interfere.  However the calls
\* take turns at their await points, each call that has ended has ended as
\* it does when run alone, and the callers' images are as they were.
C15_NoInterference ==
  /\ \A i \in 1 .. Len(calls) :
       Settled(calls[i]) =>
         [ppc |-> calls[i].ppc, perr |-> calls[i].perr, output |-> Seen(calls[i].output)]
           = ditherAlone(calls[i], hasImageData, hasWindow)
  /\ calls # <<>> => SubSeq(heap, 1, Len(ConcHeap0)) = ConcHeap0

\* two calls on the same image, one started while the other was in flight,
\* both resolved with bytes that differ from the image's
C15_Witness ==
  /\ Len(calls) >= 2
  /\ calls[1].image = calls[2].image
  /\ calls[1].ppc = "resolved"
  /\ calls[2].ppc = "resolved"
  /\ calls[1].overlapped \/ calls[2].overlapped
  /\ hasWindow
  /\ The(calls[1].output).bytes # heap[calls[1].image.data]
  /\ The(calls[2].output).bytes # heap[calls[2].image.data]

(***************************************************************************)
(* The registry used on its own: register, clear, get and list called in   *)
(* any order on the registry as module initialisation leaves it.  regLog   *)
(* keeps every call made: its argument, what it returned and the registry  *)
(* after it.                                                               *)
(***************************************************************************)
MaxRegLog == 4

\* the names looked up: the built-ins, a new name, and a built-in's name in
\* another letter case
RegistryNames == {"atkinson", "floyd-steinberg", "ordered", "custom", "Atkinson"}

\* the algorithm objects registered: the built-ins, two objects under one
\* new name, one under a built-in's name, one under a name in another case
RegistrySamples ==
  { BuiltIns[i] : i \in 1 .. Len(BuiltIns) }
  \cup { [name |-> "custom", impl |-> "custom"],
         [name |-> "custom", impl |-> "custom2"],
         [name |-> "atkinson", impl |-> "custom"],
         [name |-> "Atkinson", impl |-> "custom"] }

InitRegistry ==
  /\ registry = BuiltIns
  /\ regLog = <<>>
  /\ options = <<>>
  /\ input = ""
  /\ hasWindow = FALSE
  /\ ppc = "idle"
  /\ perr = ""
  /\ trace = <<>>
  /\ imageData = None
  /\ resizedData = None
  /\ applied = None
  /\ output = None
  /\ regOps = 0
  /\ ApplyIdle
  /\ palette = <<>>
  /\ MatchIdle
  /\ RepeatIdle
  /\ calls = <<>>
  /\ args = <<>>
  /\ ret = None
  /\ DomIdle

registryUnused ==
  <<applyVars, matchVars, repeatVars, options, input, hasWindow, ppc, perr,
    trace, imageData, resizedData, applied, output, regOps, concVars, fnVars, domVars>>

\* one call on the registry: what it returns and what the registry is after
Logged(op, arg, returned, after) ==
  /\ Len(regLog) < MaxRegLog
  /\ regLog' = Append(regLog, [op |-> op, arg |-> arg, ret |-> returned, after |-> after])
  /\ registry' = after
  /\ UNCHANGED registryUnused

RegistryRegister ==
  \E algorithm \in RegistrySamples :
    Logged("register", algorithm, Ok(<<>>), register(registry, algorithm))

RegistryClear == Logged("clear", <<>>, Ok(<<>>), clear(registry))

RegistryGet ==
  \E name \in RegistryNames : Logged("get", name, Ok(get(registry, name)), registry)

RegistryList == Logged("list", <<>>, Ok(list(registry)), registry)

NextRegistry ==
  \/ RegistryRegister
  \/ RegistryClear
  \/ RegistryGet
  \/ RegistryList

SpecRegistry == InitRegistry /\ [][NextRegistry]_vars

\* the registry before the k-th call of the log
Before(k) == IF k = 1 THEN BuiltIns ELSE regLog[k - 1].after

\* the algorithm most recently registered under name by module
\* initialisation and the first k calls of the log, none if a clear came
\* after it or there was none
RECURSIVE LatestUnder(_, _)
LatestUnder(k, name) ==
  IF k = 0
  THEN IF \E i \in 1 .. Len(BuiltIns) : BuiltIns[i].name = name
       THEN Some(BuiltIns[CHOOSE i \in 1 .. Len(BuiltIns) : BuiltIns[i].name = name])
       ELSE None
  ELSE IF regLog[k].op = "clear" THEN None
  ELSE IF regLog[k].op = "register" /\ regLog[k].arg.name = name
  THEN Some(regLog[k].arg)
  ELSE LatestUnder(k - 1, name)

\* C16: last registration wins.  get(name) returns the algorithm most
\* recently registered under that name; a register call returns without
\* error, puts its algorithm under its name, replaces the entry of a name
\* already present instead of adding one, and leaves every other name's
\* entry as it was.
C16_LastWins ==
  /\ \A name \in RegistryNames : get(registry, name) = LatestUnder(Len(regLog), name)
  /\ \A k \in 1 .. Len(regLog) :
       regLog[k].op = "register" =>
         /\ regLog[k].ret.ok
         /\ get(regLog[k].after, regLog[k].arg.name) = Some(regLog[k].arg)
         /\ get(Before(k), regLog[k].arg.name) # None =>
              Len(regLog[k].after) = Len(Before(k))
         /\ \A name \in RegistryNames \ {regLog[k].arg.name} :
              get(regLog[k].after, name) = get(Before(k), name)

\* two different algorithms were registered under the same new name one
\* after the other, and get returns the second
C16_Witness ==
  /\ \E k \in 1 .. Len(regLog) - 1 :
       /\ regLog[k].op = "register"
       /\ regLog[k + 1].op = "register"
       /\ regLog[k].arg = [name |-> "custom", impl |-> "custom"]
       /\ regLog[k + 1].arg = [name |-> "custom", impl |-> "custom2"]
  /\ get(registry, "custom") = Some([name |-> "custom", impl |-> "custom2"])
  /\ Len(registry) = Len(BuiltIns) + 1

\* C17: after any sequence of register and clear calls, list() contains a
\* name exactly when get(name) is defined and contains no name twice; no
\* call throws; get and list leave the registry as it is; get of a name
\* with no entry spelled exactly so returns undefined; a list() right after
\* a list() returns the same sequence, and right after a clear() the empty
\* one.
C17_ListAndGet ==
  /\ \A name \in RegistryNames :
       (\E i \in 1 .. Len(list(registry)) : list(registry)[i] = name)
         <=> get(registry, name) # None
  /\ \A i, j \in 1 .. Len(list(registry)) :
       i # j => list(registry)[i] # list(registry)[j]
  /\ \A k \in 1 .. Len(regLog) :
       /\ regLog[k].ret.ok
       /\ regLog[k].op \in {"get", "list"} => regLog[k].after = Before(k)
       /\ (/\ regLog[k].op = "get"
           /\ \A i \in 1 .. Len(Before(k)) : Before(k)[i].name # regLog[k].arg)
            => regLog[k].ret.value = None
       /\ (k > 1 /\ regLog[k].op = "list" /\ regLog[k - 1].op = "list")
            => regLog[k].ret = regLog[k - 1].ret
       /\ (k > 1 /\ regLog[k].op = "list" /\ regLog[k - 1].op = "clear")
            => regLog[k].ret.value = <<>>

\* get of a built-in's name in another letter case found nothing while the
\* built-in was registered, a custom algorithm was registered, and list was
\* called twice in a row on the registry holding it
C17_Witness ==
  /\ \E k \in 1 .. Len(regLog) :
       /\ regLog[k].op = "get"
       /\ regLog[k].arg = "Atkinson"
       /\ regLog[k].ret.value = None
       /\ get(Before(k), "atkinson") # None
  /\ \E k \in 2 .. Len(regLog) :
       /\ regLog[k].op = "list"
       /\ regLog[k - 1].op = "list"
       /\ Len(regLog[k].ret.value) = Len(BuiltIns) + 1

\* C18: once the module has initialised, the names atkinson,
\* floyd-steinberg and ordered are registered and stay registered in every
\* state the registry's operations can reach.
C18_BuiltInsStay ==
  regLog # <<>> =>
    \A name \in {"atkinson", "floyd-steinberg", "ordered"} : get(registry, name) # None

\* everything but args and ret is idle while a function is called on its own
FnAlone ==
  /\ ApplyIdle
  /\ palette = <<>>
  /\ MatchIdle
  /\ RepeatIdle
  /\ PipeIdle
  /\ calls = <<>>
  /\ regLog = <<>>
  /\ DomIdle

fnUnused == <<applyVars, matchVars, repeatVars, pipeVars, concVars, regVars, domVars>>

MaxPixels == 3

\* pixels of the palette images: black, white, red and two dark colours of
\* the same luminance (3.876), opaque, fully transparent and nearly so
ExtractColors == {Black, White, Red, <<11, 1, 0>>, <<0, 0, 34>>}

ExtractPixels ==
  { <<c[1], c[2], c[3], a>> : c \in ExtractColors, a \in {0, 255} }
  \cup { <<0, 0, 0, 1>> }

ExtractImages ==
  { Flatten(px) : px \in UNION { [1 .. n -> ExtractPixels] : n \in 0 .. MaxPixels } }

InitExtract ==
  /\ args \in { [data |-> bytes, tie |-> t] : bytes \in ExtractImages, t \in {-1, 0, 1} }
  /\ ret = None
  /\ FnAlone

Extract ==
  /\ ret = None
  /\ ret' = Some(extractColorsFromImageData(args.data, args.tie))
  /\ UNCHANGED <<args, fnUnused>>

NextExtract == Extract

SpecExtract == InitExtract /\ [][NextExtract]_vars

\* the colours of the pixels of the image that are not fully transparent
C19_Visible ==
  { <<args.data[4 * k + 1], args.data[4 * k + 2], args.data[4 * k + 3]>> :
      k \in { j \in 0 .. (Len(args.data) \div 4) - 1 : args.data[4 * j + 4] # 0 } }

MaxDim == 6

\* Math.round(num / den) for positive num and den
mathRound(num, den, halfUp) ==
  IF (2 * num) % den = 0 /\ ((2 * num) \div den) % 2 = 1
  THEN IF halfUp THEN (num \div den) + 1 ELSE num \div den
  ELSE (2 * num + den) \div (2 * den)

\* calculateResizeDimensions that always scales to cover the bounds
calculateResizeDimensions_Cover(originalWidth, originalHeight, o, halfUp) ==
  IF ~Truthy(o.width) /\ ~Truthy(o.height)
  THEN [width |-> originalWidth, height |-> originalHeight]
  ELSE IF Truthy(o.width) /\ Truthy(o.height)
  THEN IF The(o.width) * originalHeight >= The(o.height) * originalWidth
       THEN [width |-> mathRound(originalWidth * The(o.width), originalWidth, halfUp),
             height |-> mathRound(originalHeight * The(o.width), originalWidth, halfUp)]
       ELSE [width |-> mathRound(originalWidth * The(o.height), originalHeight, halfUp),
             height |-> mathRound(originalHeight * The(o.height), originalHeight, halfUp)]
  ELSE IF Truthy(o.width)
  THEN [width |-> The(o.width),
        height |-> mathRound(The(o.width) * originalHeight, originalWidth, halfUp)]
  ELSE [width |-> mathRound(The(o.height) * originalWidth, originalHeight, halfUp),
        height |-> The(o.height)]

\* scale is maxWidth / originalWidth when the chosen one of the two scales
\* (the smaller for contain, the larger for cover) is the width's, else
\* maxHeight / originalHeight
calculateResizeDimensions(originalWidth, originalHeight, o, halfUp) ==
  IF ~Truthy(o.width) /\ ~Truthy(o.height)
  THEN [width |-> originalWidth, height |-> originalHeight]
  ELSE IF Truthy(o.width) /\ Truthy(o.height)
  THEN IF (The(o.width) * originalHeight <= The(o.height) * originalWidth)
            = (o.fit \in {None, Some("contain")})
          \/ The(o.width) * originalHeight = The(o.height) * originalWidth
       THEN [width |-> mathRound(originalWidth * The(o.width), originalWidth, halfUp),
             height |-> mathRound(originalHeight * The(o.width), originalWidth, halfUp)]
       ELSE [width |-> mathRound(originalWidth * The(o.height), originalHeight, halfUp),
             height |-> mathRound(originalHeight * The(o.height), originalHeight, halfUp)]
  ELSE IF Truthy(o.width)
  THEN [width |-> The(o.width),
        height |-> mathRound(The(o.width) * originalHeight, originalWidth, halfUp)]
  ELSE [width |-> mathRound(The(o.height) * originalWidth, originalHeight, halfUp),
        height |-> The(o.height)]

DimOptions == {None} \cup { Some(n) : n \in 1 .. MaxDim }

ResizeOptionSamples ==
  [width : DimOptions, height : DimOptions, fit : {None, Some("contain"), Some("cover")}]

InitResize ==
  /\ args \in [originalWidth : 1 .. MaxDim, originalHeight : 1 .. MaxDim,
               options : ResizeOptionSamples, halfUp : BOOLEAN]
  /\ ret = None
  /\ FnAlone

Resize ==
  /\ ret = None
  /\ ret' = Some(calculateResizeDimensions(args.originalWidth, args.originalHeight,
                                           args.options, args.halfUp))
  /\ UNCHANGED <<args, fnUnused>>

NextResize == Resize

SpecResize == InitResize /\ [][NextResize]_vars

\* C20: with both a width and a height bound and fit contain (the default)
\* calculateResizeDimensions returns a width within the width bound and a
\* height within the height bound; with no bound it returns the original
\* dimensions.
C20_ContainWithinBounds ==
  ret # None =>
    /\ (/\ args.options.width # None
        /\ args.options.height # None
        /\ args.options.fit # Some("cover"))
         => /\ The(ret).width <= The(args.options.width)
            /\ The(ret).height <= The(args.options.height)
    /\ (args.options.width = None /\ args.options.height = None)
         => The(ret) = [width |-> args.originalWidth, height |-> args.originalHeight]

\* a 6x3 image in bounds 5x3: the width bound decides, the exact height 2.5
\* was rounded up and is the height bound itself
C20_Witness ==
  /\ ret = Some([width |-> 5, height |-> 3])
  /\ args.originalWidth = 6
  /\ args.originalHeight = 3
  /\ args.options = [width |-> Some(5), height |-> Some(3), fit |-> None]

(***************************************************************************)
(* The diffusion algorithms, one loop iteration at a time.                 *)
(***************************************************************************)
Diffusion == {"atkinson", "floyd-steinberg"}

\* apply is in its loop, about to process the anchor (x, y)
AtAnchor == pc = "loop" /\ alg \in Diffusion /\ y < data.height

\* p comes before q in raster order
RasterBefore(p, q) == p[2] < q[2] \/ (p[2] = q[2] /\ p[1] < q[1])

Anchors == { p \in Coords : IsAnchor(p) }

\* the anchors the loop has processed when it stands at (cx, cy)
VisitedAt(cx, cy) == { p \in Anchors : RasterBefore(p, <<cx, cy>>) }

\* C21: Atkinson and Floyd-Steinberg apply visit the anchors in raster order
\* (no anchor is skipped or revisited), and a loop iteration changes the RGB
\* of no anchor that was visited before it: outside the block it fills, it
\* writes only to anchors not visited yet, and the anchor it quantized keeps
\* its palette colour in every later step of the call.
C21_RasterOrder ==
  [][AtAnchor =>
       /\ VisitedAt(x', y') = VisitedAt(x, y) \cup {<<x, y>>}
       /\ \A p \in VisitedAt(x, y) : RGBAt(Pixels', p) = RGBAt(Pixels, p)
       /\ RGBAt(Pixels', <<x, y>>) \in PaletteColors
       /\ \A p \in Coords :
            (RGBAt(Pixels', p) # RGBAt(Pixels, p) /\ AnchorOf(p) # <<x, y>>)
              => (p \in Anchors /\ p \notin VisitedAt(x', y'))]_vars

\* the loop has visited an anchor and an anchor it has not visited yet
\* holds diffused error
C21_Witness ==
  /\ AtAnchor
  /\ step = 2
  /\ VisitedAt(x, y) # {}
  /\ \E p \in Anchors \ VisitedAt(x, y) : RGBAt(Pixels, p) # RGBAt(input0.bytes, p)

\* the kernels as the claims state them: the neighbours of an anchor as
\* offsets in steps, each with the numerator of its weight
FloydSteinbergKernel ==
  { <<1, 0, 7>>, <<-1, 1, 3>>, <<0, 1, 5>>, <<1, 1, 1>> }

AtkinsonKernel ==
  { <<1, 0, 1>>, <<2, 0, 1>>, <<-1, 1, 1>>, <<0, 1, 1>>, <<1, 1, 1>>, <<0, 2, 1>> }

\* the numerator of the weight with which pixel p receives the error of the
\* anchor (x, y): 0 when p is no neighbour
WeightAt(kernel, p) ==
  IF \E k \in kernel : p = <<x + k[1] * step, y + k[2] * step>>
  THEN (CHOOSE k \in kernel : p = <<x + k[1] * step, y + k[2] * step>>)[3]
  ELSE 0

RECURSIVE SumWeights(_)
SumWeights(ps) ==
  IF ps = {} THEN 0
  ELSE LET p == CHOOSE q \in ps : TRUE IN p[2] + SumWeights(ps \ {p})

\* the weights, over `den`, that reach a pixel of the image
WeightInside(kernel) == SumWeights({ <<p, WeightAt(kernel, p)>> : p \in Coords })

\* the error of the iteration at (x, y): the value read at the anchor minus
\* the palette colour stored there
ErrorAt(c) == RGBAt(Pixels, <<x, y>>)[c] - RGBAt(Pixels', <<x, y>>)[c]

\* the iteration left in channel c of pixel p the byte nearest to its old
\* value plus weight/den of the error, kept within 0..255
Received(p, c, weight, den) ==
  LET sum == RGBAt(Pixels, p)[c] * den + ErrorAt(c) * weight
      kept == Max(0, Min(255 * den, sum))
  IN  /\ 2 * (RGBAt(Pixels', p)[c] * den - kept) \in -den .. den
      /\ AlphaAt(Pixels', p) = AlphaAt(Pixels, p)

\* every pixel outside the block of (x, y) received its share under the
\* kernel, which is nothing for a pixel that is no neighbour
KernelApplied(kernel, den) ==
  \A p \in Coords :
    AnchorOf(p) # <<x, y>> =>
      \A c \in 1 .. 3 : Received(p, c, WeightAt(kernel, p), den)

\* C22: an iteration of Floyd-Steinberg apply at the anchor (x, y) adds 7/16
\* of the error to (x+step, y), 3/16 to (x-step, y+step), 5/16 to (x, y+step)
\* and 1/16 to (x+step, y+step), where these are inside the image, and
\* changes no other pixel outside the anchor's block; with all four inside
\* the weights sum to 1.
C22_FloydSteinbergKernel ==
  [][(AtAnchor /\ alg = "floyd-steinberg") =>
       /\ KernelApplied(FloydSteinbergKernel, 16)
       /\ (x - step >= 0 /\ x + step < data.width /\ y + step < data.height)
            => WeightInside(FloydSteinbergKernel) = 16]_vars

\* the anchor (1, 0) of a 3-wide image had all four neighbours inside, and
\* its lower and lower-right neighbours hold another value than the input's
C22_Witness ==
  /\ AtAnchor /\ alg = "floyd-steinberg" /\ step = 1
  /\ data.width = 3 /\ data.height >= 2
  /\ x = 2 /\ y = 0
  /\ RGBAt(Pixels, <<2, 1>>) # RGBAt(input0.bytes, <<2, 1>>)
  /\ RGBAt(Pixels, <<1, 1>>) # RGBAt(input0.bytes, <<1, 1>>)

(***************************************************************************)
(* Atkinson and Floyd-Steinberg apply on images wide and high enough for   *)
(* an anchor to have every neighbour of either kernel inside the image.    *)
(***************************************************************************)
MaxDiffuseW == 4
MaxDiffuseH == 3

DiffuseImages(width, height) ==
  { ImageBytes(width, height, a, b, c, m) :
      a \in 0 .. 1, b \in 0 .. 1, c \in 0 .. 2, m \in 2 .. Len(PixelSamples) }

InitDiffuse ==
  /\ alg \in Diffusion
  /\ \E w \in 1 .. MaxDiffuseW, h \in 1 .. MaxDiffuseH :
       \E bytes \in DiffuseImages(w, h) :
         /\ heap = <<bytes>>
         /\ data = [data |-> 1, width |-> w, height |-> h]
         /\ input0 = [bytes |-> bytes, width |-> w, height |-> h]
  /\ palette \in ValidPalettes
  /\ step \in 1 .. MaxStep
  /\ hasImageData \in BOOLEAN
  /\ result = None
  /\ x = 0
  /\ y = 0
  /\ pc = "call"
  /\ error = ""
  /\ MatchIdle
  /\ RepeatIdle
  /\ PipeIdle
  /\ RestIdle

NextDiffuse ==
  \/ ApplyAlloc
  \/ AtkinsonStep
  \/ FloydSteinbergStep
  \/ ApplyReturn

SpecDiffuse == InitDiffuse /\ [][NextDiffuse]_vars

\* C23: an iteration of Atkinson apply at the anchor (x, y) adds 1/8 of the
\* error to each of (x+step, y), (x+2*step, y), (x-step, y+step), (x, y+step),
\* (x+step, y+step) and (x, y+2*step) that is inside the image and changes no
\* other pixel but the anchor: at most 6/8 of the error is handed on, and
\* exactly 6/8 when all six are inside.
C23_AtkinsonKernel ==
  [][(AtAnchor /\ alg = "atkinson") =>
       /\ KernelApplied(AtkinsonKernel, 8)
       /\ \A p \in Coords :
            (AnchorOf(p) = <<x, y>> /\ p # <<x, y>>)
              => (RGBAt(Pixels', p) = RGBAt(Pixels, p)
                   /\ AlphaAt(Pixels', p) = AlphaAt(Pixels, p))
       /\ WeightInside(AtkinsonKernel) <= 6
       /\ (x - step >= 0 /\ x + 2 * step < data.width /\ y + 2 * step < data.height)
            => WeightInside(AtkinsonKernel) = 6]_vars

\* the anchor (1, 0) of a 4x3 image had all six neighbours inside, and its
\* neighbour two rows down, which no other anchor has reached, holds another
\* value than the input's
C23_Witness ==
  /\ AtAnchor /\ alg = "atkinson" /\ step = 1
  /\ data.width = 4 /\ data.height = 3
  /\ x = 2 /\ y = 0
  /\ RGBAt(Pixels, <<1, 2>>) # RGBAt(input0.bytes, <<1, 2>>)

KernelOf(name) == IF name = "atkinson" THEN AtkinsonKernel ELSE FloydSteinbergKernel
DenominatorOf(name) == IF name = "atkinson" THEN 8 ELSE 16
FullWeight(name) == IF name = "atkinson" THEN 6 ELSE 16

\* a neighbour of the anchor (x, y) under the kernel lies outside the image
NeighbourOutside(kernel) ==
  \E k \in kernel : <<x + k[1] * step, y + k[2] * step>> \notin Coords

\* C24: in an iteration of Atkinson or Floyd-Steinberg apply a neighbour
\* whose column or row is outside the image receives no write. The iteration
\* does not throw, the buffer keeps its length, every neighbour inside the
\* image receives exactly its own share at (x+dx*step, y+dy*step), no other
\* pixel outside the anchor's block changes (a write that wrapped into the
\* next row would change one), and the shares aimed outside are dropped: the
\* weights received add up to less than the kernel's total.
C24_OutsideSkipped ==
  [][(AtAnchor /\ NeighbourOutside(KernelOf(alg))) =>
       /\ pc' = "loop"
       /\ error' = ""
       /\ Len(Pixels') = data.width * data.height * 4
       /\ KernelApplied(KernelOf(alg), DenominatorOf(alg))
       /\ WeightInside(KernelOf(alg)) < FullWeight(alg)]_vars

\* the only anchor of the first row of an image one pixel wide had an error,
\* which reached the pixel below it; its neighbours to the right and to the
\* left are outside the image
C24_Witness ==
  /\ AtAnchor /\ step = 1
  /\ data.width = 1 /\ data.height >= 2
  /\ x = 0 /\ y = 1
  /\ RGBAt(Pixels, <<0, 1>>) # RGBAt(input0.bytes, <<0, 1>>)

\* the sum old + weight/den * error of channel c of pixel p, times den
SumAt(p, c, weight, den) == RGBAt(Pixels, p)[c] * den + ErrorAt(c) * weight

\* C25: in every state of an Atkinson or Floyd-Steinberg call every byte of
\* the working buffer is an integer in 0..255, and an iteration whose sum for
\* a neighbour's channel is above 255 leaves 255 there, one whose sum is below
\* 0 leaves 0: the value is clamped and does not wrap around.
C25_Clamped ==
  /\ []((alg \in Diffusion /\ IsSome(result)) =>
          \A k \in 1 .. Len(Pixels) : Pixels[k] \in 0 .. 255)
  /\ [][AtAnchor =>
          \A p \in Coords : \A c \in 1 .. 3 :
            LET sum == SumAt(p, c, WeightAt(KernelOf(alg), p), DenominatorOf(alg))
            IN  /\ sum > 255 * DenominatorOf(alg) => RGBAt(Pixels', p)[c] = 255
                /\ sum < 0 => RGBAt(Pixels', p)[c] = 0]_vars

\* Floyd-Steinberg on an image one pixel wide: the first anchor's error in a
\* channel was positive, 5/16 of it added to the pixel below gave more than
\* 255, and the pixel below holds 255
C25_Witness ==
  /\ AtAnchor /\ alg = "floyd-steinberg" /\ step = 1
  /\ data.width = 1 /\ data.height >= 2
  /\ x = 0 /\ y = 1
  /\ \E c \in 1 .. 3 :
       /\ RGBAt(input0.bytes, <<0, 1>>)[c] * 16
            + 5 * (RGBAt(input0.bytes, <<0, 0>>)[c] - RGBAt(Pixels, <<0, 0>>)[c]) > 255 * 16
       /\ RGBAt(Pixels, <<0, 1>>)[c] = 255

\* every pixel of the input has an RGB triple of the palette
InputInPalette == \A p \in Coords : RGBAt(input0.bytes, p) \in PaletteColors

\* createCheckerboard(): 2x2, black where x + y is even, white elsewhere
Checkerboard2x2 ==
  /\ data.width = 2 /\ data.height = 2
  /\ \A p \in Coords :
       RGBAt(input0.bytes, p) = IF (p[1] + p[2]) % 2 = 0 THEN Black ELSE White

\* C26: Atkinson and Floyd-Steinberg apply with step 1 on an input whose
\* every pixel has a palette colour quantize every pixel with error zero and
\* return the input's RGB at every pixel, with alpha 255; the 2x2 black/white
\* checkerboard with the palette black, white comes back unchanged.
C26_PaletteInputUnchanged ==
  /\ []((Returned /\ alg \in Diffusion /\ step = 1 /\ InputInPalette) =>
          \A p \in Coords :
            /\ RGBAt(ResultPixels, p) = RGBAt(input0.bytes, p)
            /\ AlphaAt(ResultPixels, p) = 255)
  /\ [][(AtAnchor /\ step = 1 /\ InputInPalette) =>
          \A c \in 1 .. 3 : ErrorAt(c) = 0]_vars

\* apply returned the 2x2 checkerboard for the palette black, white; the
\* input's white pixels were transparent, the result's are opaque
C26_Witness ==
  /\ Returned /\ alg \in Diffusion /\ step = 1
  /\ palette = BW
  /\ Checkerboard2x2
  /\ \A p \in Coords : RGBAt(ResultPixels, p) = RGBAt(input0.bytes, p)
  /\ AlphaAt(input0.bytes, <<1, 0>>) = 0
  /\ AlphaAt(ResultPixels, <<1, 0>>) = 255

(***************************************************************************)
(* The threshold ordered apply selects, for two anchors of one call: the   *)
(* arguments are the step and the two anchors' block coordinates (an       *)
(* anchor's pixel coordinates are the step times these), the value         *)
(* returned is the pair of thresholds.                                     *)
(***************************************************************************)
MaxBlock == 5

Blocks == (0 .. MaxBlock) \X (0 .. MaxBlock)

InitBayer ==
  /\ args \in [step : 1 .. MaxStep, a : Blocks, b : Blocks]
  /\ ret = None
  /\ FnAlone

Threshold ==
  /\ ret = None
  /\ ret' = Some(<<bayerThreshold(args.a[1] * args.step, args.a[2] * args.step, args.step),
                   bayerThreshold(args.b[1] * args.step, args.b[2] * args.step, args.step)>>)
  /\ UNCHANGED <<args, fnUnused>>

NextBayer == Threshold

SpecBayer == InitBayer /\ [][NextBayer]_vars

BayerValues == { BAYER_4X4[i][j] : i \in 1 .. 4, j \in 1 .. 4 }

\* the block coordinates, counted from the anchor's pixel coordinates
BlockOf(anchor, st) == <<anchor[1] \div st, anchor[2] \div st>>

\* C27: the threshold of the block anchored at (x, y) is
\* BAYER_4X4[floor(y/step) mod 4][floor(x/step) mod 4] for every step >= 1.
\* The indices are inside the matrix, the matrix holds 16 distinct values
\* within 0..255, and two anchors get the same threshold exactly when their
\* block coordinates are congruent mod 4 in both axes.
C27_BayerTiling ==
  /\ Cardinality(BayerValues) = 16
  /\ BayerValues \subseteq 0 .. 255
  /\ ret # None =>
       LET blockA == BlockOf(<<args.a[1] * args.step, args.a[2] * args.step>>, args.step)
           blockB == BlockOf(<<args.b[1] * args.step, args.b[2] * args.step>>, args.step)
       IN  /\ blockA[1] % 4 \in 0 .. 3 /\ blockA[2] % 4 \in 0 .. 3
           /\ The(ret)[1] = BAYER_4X4[(blockA[2] % 4) + 1][(blockA[1] % 4) + 1]
           /\ The(ret)[2] = BAYER_4X4[(blockB[2] % 4) + 1][(blockB[1] % 4) + 1]
           /\ (The(ret)[1] = The(ret)[2])
                <=> (blockA[1] % 4 = blockB[1] % 4 /\ blockA[2] % 4 = blockB[2] % 4)

\* with step 2 the anchors at pixels (2, 0) and (10, 0), blocks 1 and 5 of
\* the first row, both got the threshold 128 of the matrix's second column
C27_Witness ==
  /\ ret = Some(<<128, 128>>)
  /\ args.step = 2
  /\ args.a = <<1, 0>>
  /\ args.b = <<5, 0>>

(***************************************************************************)
(* Two calls of ordered apply side by side, on two images of one size with *)
(* the same palette and step, Math.random() returning in the second call   *)
(* what it returned in the first.  heap[1] and heap[2] are the inputs; the *)
(* calls' result buffers follow them on the heap, the second call's right  *)
(* after the first's.                                                      *)
(***************************************************************************)
MaxPairW == 3
MaxPairH == 2

PairImages(width, height) ==
  { ImageBytes(width, height, a, b, c, m) :
      a \in 0 .. 1, b \in 0 .. 1, c \in {0, 2}, m \in 2 .. Len(PixelSamples) }

InitPair ==
  /\ alg = "ordered"
  /\ \E w \in 1 .. MaxPairW, h \in 1 .. MaxPairH :
       \E bytes \in PairImages(w, h), other \in PairImages(w, h) :
         /\ heap = <<bytes, other>>
         /\ data = [data |-> 1, width |-> w, height |-> h]
         /\ input0 = [bytes |-> bytes, width |-> w, height |-> h]
  /\ palette \in ValidPalettes
  /\ step \in 1 .. MaxStep
  /\ hasImageData = FALSE
  /\ result = None
  /\ x = 0
  /\ y = 0
  /\ pc = "call"
  /\ error = ""
  /\ MatchIdle
  /\ RepeatIdle
  /\ PipeIdle
  /\ RestIdle

\* both calls pass their checks and allocate their results
PairAlloc ==
  /\ pc = "call"
  /\ applyCheck(palette, step).ok
  /\ LET first == createImageDataCrossPlatform(heap, data, hasImageData)
         second == createImageDataCrossPlatform(first.heap, [data EXCEPT !.data = 2],
                                                hasImageData)
     IN  /\ heap' = second.heap
         /\ result' = Some(first.image)
  /\ x' = 0
  /\ y' = 0
  /\ pc' = "loop"
  /\ UNCHANGED <<alg, data, palette, step, hasImageData, error, input0>>
  /\ UNCHANGED notApply

\* both calls run the loop body at (x, y), with the same three draws
PairStep ==
  /\ pc = "loop" /\ y < data.height
  /\ \E rnd \in RandDraws :
       heap' = [heap EXCEPT
                  ![The(result).data] =
                     orderedBody(@, x, y, data.width, data.height, palette, step, rnd),
                  ![The(result).data + 1] =
                     orderedBody(@, x, y, data.width, data.height, palette, step, rnd)]
  /\ Advance
  /\ UNCHANGED <<alg, data, palette, step, hasImageData, result, pc, error, input0>>
  /\ UNCHANGED notApply

NextPair ==
  \/ PairAlloc
  \/ PairStep
  \/ ApplyReturn

SpecPair == InitPair /\ [][NextPair]_vars

SecondInput == heap[2]
SecondPixels == heap[The(result).data + 1]

\* the pixels of the block anchored at p
BlockAt(p) == { q \in Coords : AnchorOf(q) = p }

\* C28: ordered apply is memoryless. An iteration changes only pixels of the
\* block it is at, so an anchor is read as the input had it; and in two calls
\* with the same palette, step and random draws, every block whose anchor has
\* the same RGB in both inputs comes out the same in both results, whatever
\* the inputs' other pixels are.
C28_Memoryless ==
  /\ [](IsSome(result) =>
          /\ \A p \in Anchors \ VisitedAt(x, y) :
               /\ RGBAt(Pixels, p) = RGBAt(input0.bytes, p)
               /\ RGBAt(SecondPixels, p) = RGBAt(SecondInput, p)
          /\ \A p \in VisitedAt(x, y) :
               RGBAt(input0.bytes, p) = RGBAt(SecondInput, p)
                 => \A q \in BlockAt(p) : RGBAt(Pixels, q) = RGBAt(SecondPixels, q))
  /\ [][(pc = "loop" /\ y < data.height) =>
          \A q \in Coords \ BlockAt(<<x, y>>) :
            /\ RGBAt(Pixels', q) = RGBAt(Pixels, q)
            /\ RGBAt(SecondPixels', q) = RGBAt(SecondPixels, q)]_vars

\* both calls returned; the inputs agree at the anchor (2, 0) and differ at
\* the anchor (0, 0), and so do the results, with step 2
C28_Witness ==
  /\ Returned
  /\ step = 2
  /\ data.width = 3
  /\ RGBAt(input0.bytes, <<2, 0>>) = RGBAt(SecondInput, <<2, 0>>)
  /\ RGBAt(input0.bytes, <<0, 0>>) # RGBAt(SecondInput, <<0, 0>>)
  /\ RGBAt(Pixels, <<2, 0>>) = RGBAt(SecondPixels, <<2, 0>>)
  /\ RGBAt(Pixels, <<0, 0>>) # RGBAt(SecondPixels, <<0, 0>>)

\* C29: calculateResizeDimensions returns a width and a height that are both
\* at least 1, for every positive original size and every positive width
\* and/or height bound.
C29_PositiveDimensions ==
  ret # None => (The(ret).width >= 1 /\ The(ret).height >= 1)

(***************************************************************************)
(* browser.ts: autoDitherDOM in a page.  An img element is "loaded"        *)
(* (complete, naturalHeight not 0), "loading" (not complete) or "broken"   *)
(* (complete after a failed load, naturalHeight 0).  A loading element     *)
(* gets one load or one error event from the browser; a loaded or broken   *)
(* one gets none.  Each element carries its two listeners, how far         *)
(* processImage has come with it, its processImage promise, the number of  *)
(* resolve and reject calls made on that promise, and whether the element  *)
(* has been replaced by a canvas.                                          *)
(***************************************************************************)
MaxImages == 3

ImgStates == {"loaded", "loading", "broken"}

MatchedImg(state) ==
  [state |-> state, onLoad |-> FALSE, onError |-> FALSE, stage |-> "matched",
   promise |-> "none", settles |-> 0, replaced |-> FALSE]

complete(img) == img.state # "loading"
naturalHeight(img) == IF img.state = "loaded" THEN 1 ELSE 0

\* resolve() or reject() called on the element's promise: only the first
\* call settles it
settle(img, outcome) ==
  [img EXCEPT !.promise = IF @ = "pending" THEN outcome ELSE @,
              !.settles = @ + 1]

\* processLoadedImage up to its await of ditherImage(img, options)
processLoadedImage(img) == [img EXCEPT !.stage = "dithering"]

\* processLoadedImage after the await: replace and resolve, or reject with
\* what ditherImage or the ImageData constructor threw.  A matched element
\* is in the document, so it has a parent to be replaced in.
processLoadedImageEnd(img, ok) ==
  IF ok
  THEN settle([img EXCEPT !.replaced = TRUE, !.stage = "done"], "resolved")
  ELSE settle([img EXCEPT !.stage = "done"], "rejected")

\* the executor of processImage's promise
processImage(img) ==
  LET created == [img EXCEPT !.promise = "pending"]
  IN  IF complete(img) /\ naturalHeight(img) # 0
      THEN processLoadedImage(created)
      ELSE [created EXCEPT !.onLoad = TRUE, !.onError = TRUE, !.stage = "waiting"]

removeListeners(img) == [img EXCEPT !.onLoad = FALSE, !.onError = FALSE]

onLoad(img) == processLoadedImage(removeListeners(img))

onError(img) == settle([removeListeners(img) EXCEPT !.stage = "done"], "rejected")

\* p.catch(error => null): settled with a value whatever p settled with
catchNull(promise) == IF promise = "rejected" THEN "resolved" ELSE promise

\* Promise.all over the promises ps
promiseAll(ps) ==
  IF \E i \in 1 .. Len(ps) : ps[i] = "rejected" THEN "rejected"
  ELSE IF \A i \in 1 .. Len(ps) : ps[i] = "resolved" THEN "resolved"
  ELSE "pending"

InitDom ==
  /\ \E n \in 0 .. MaxImages :
       images \in [1 .. n -> { MatchedImg(state) : state \in ImgStates }]
  /\ autoDither = "idle"
  /\ ApplyIdle
  /\ palette = <<>>
  /\ MatchIdle
  /\ RepeatIdle
  /\ PipeIdle
  /\ calls = <<>>
  /\ regLog = <<>>
  /\ args = <<>>
  /\ ret = None

domUnused ==
  <<applyVars, matchVars, repeatVars, pipeVars, concVars, regVars, fnVars>>

\* autoDitherDOM up to its await: processImage is called on every matched
\* element in turn
AutoDitherDOM ==
  /\ autoDither = "idle"
  /\ images' = [i \in 1 .. Len(images) |-> processImage(images[i])]
  /\ autoDither' = "awaiting"
  /\ UNCHANGED domUnused

\* the browser finishes loading element i and fires load
LoadEvent(i) ==
  /\ images[i].state = "loading"
  /\ images' = [images EXCEPT ![i] =
                  LET img == [@ EXCEPT !.state = "loaded"]
                  IN  IF img.onLoad THEN onLoad(img) ELSE img]
  /\ UNCHANGED <<autoDither, domUnused>>

\* the browser fails to load element i and fires error
ErrorEvent(i) ==
  /\ images[i].state = "loading"
  /\ images' = [images EXCEPT ![i] =
                  LET img == [@ EXCEPT !.state = "broken"]
                  IN  IF img.onError THEN onError(img) ELSE img]
  /\ UNCHANGED <<autoDither, domUnused>>

\* ditherImage(img, options) settles for element i
DitherSettles(i) ==
  /\ images[i].stage = "dithering"
  /\ \E ok \in BOOLEAN :
       images' = [images EXCEPT ![i] = processLoadedImageEnd(@, ok)]
  /\ UNCHANGED <<autoDither, domUnused>>

\* the Promise.all autoDitherDOM awaits settles
AutoDitherSettles ==
  /\ autoDither = "awaiting"
  /\ LET all == promiseAll([i \in 1 .. Len(images) |-> catchNull(images[i].promise)])
     IN  /\ all # "pending"
         /\ autoDither' = all
  /\ UNCHANGED <<images, domUnused>>

NextDom ==
  \/ AutoDitherDOM
  \/ \E i \in 1 .. Len(images) : LoadEvent(i)
  \/ \E i \in 1 .. Len(images) : ErrorEvent(i)
  \/ \E i \in 1 .. Len(images) : DitherSettles(i)
  \/ AutoDitherSettles

SpecDom == InitDom /\ [][NextDom]_vars

Matched == 1 .. Len(images)
PromiseSettled(i) == i \in Matched /\ images[i].promise \in {"resolved", "rejected"}

\* autoDitherDOM's promise never rejects and resolves only when every
\* element's promise has settled; an element is dithered only once loaded,
\* is replaced exactly when its promise resolved, has at most one resolve or
\* reject call made on its promise, and loses both listeners when either
\* event fires; a step that settles one element's promise leaves the other
\* elements as they are
C30_Isolated ==
  /\ [](autoDither # "rejected")
  /\ [](autoDither = "resolved" => \A i \in Matched : PromiseSettled(i))
  /\ [](\A i \in Matched :
          /\ (images[i].stage = "dithering" \/ images[i].replaced)
               => images[i].state = "loaded"
          /\ images[i].replaced <=> images[i].promise = "resolved"
          /\ images[i].settles <= 1
          /\ PromiseSettled(i) <=> images[i].settles = 1)
  /\ [][\A i \in Matched :
          /\ images'[i].state # images[i].state
               => (~images'[i].onLoad /\ ~images'[i].onError)
          /\ (~PromiseSettled(i) /\ images'[i].promise \in {"resolved", "rejected"})
               => \A j \in Matched \ {i} : images'[j] = images[j]]_vars

\* an element whose promise is pending has a step ahead of it that can
\* settle the promise: an event of the browser or the end of its dithering
C30_CanSettle ==
  \A i \in Matched :
    images[i].promise = "pending"
      => ENABLED (LoadEvent(i) \/ ErrorEvent(i) \/ DitherSettles(i))

\* C30: autoDitherDOM processes the matched images concurrently and isolates
\* failures. Its promise never rejects and resolves only after every matched
\* image's processing has settled; a failed image does not keep another from
\* being replaced by its canvas; an image is dithered only after it has
\* loaded; its processImage promise settles exactly once; both its listeners
\* are removed once either event fires.
C30_AutoDitherDOM ==
  /\ C30_Isolated
  /\ []C30_CanSettle

====
